---- MODULE Spec2Model ----
(***************************************************************************)
(* Priority queue service layered on a durable transport (SQS) and an      *)
(* ordering index (Redis sorted sets + metadata records).                  *)
(*                                                                         *)
(* The index is modelled as Redis stores it: one sorted set per priority   *)
(* key (members ordered by score, ties by member), one metadata record per *)
(* message id, one latency value per priority.  The transport is an opaque *)
(* set of stored messages that hands out any batch of them in any order.   *)
(* Every facade handler (sendMessage, receiveMessages, deleteMessage,      *)
(* purgeQueue) is one action.                                              *)
(***************************************************************************)
EXTENDS Integers, Sequences, FiniteSets, TLC

\* ------------------------------------------------------------------------
\* Bounds of the model
\* ------------------------------------------------------------------------
MaxMsgs == 2
MaxTime == 2
MaxBatch == 2
MaxReceives == 2
MaxDepth == 18
MaxDispatchThreshold == 2
MaxRaceDepth == 2
StarvationThreshold == 1

\* ------------------------------------------------------------------------
\* Program constants (DEFAULT_CONFIG)
\* ------------------------------------------------------------------------
PRIORITY_LEVELS == 3
MAX_MESSAGES == 10
STARVATION_PREVENTION_THRESHOLD == 100

Ids == 1..MaxMsgs
Times == 1..MaxTime
Priorities == 0..(PRIORITY_LEVELS - 1)
\* priorities a caller may pass: the valid ones, a negative one, one too large
PriorityInputs == {-1} \cup Priorities \cup {PRIORITY_LEVELS + 2}
\* maxMessages a caller may pass; 0 stands for "not given"
MaxMessagesInputs == 0..MaxBatch
\* priorities a caller may pass to deleteMessage: the valid ones and one beyond
DeletePriorityInputs == Priorities \cup {PRIORITY_LEVELS + 2}
\* the priority keys the index may be asked about
QueueKeys == PriorityInputs
NoValue == 0

VARIABLES
    now,                          \* Date.now()
    messageIdCounter,             \* transport: the next message id it hands out
    sqs,                          \* transport: ids of the messages it stores
    handles,                      \* transport: ids for which a receipt handle was issued
    priorityQueue,                \* index: priority key -> sorted set {[member, score]}
    messageMetadata,              \* index: id -> metadata record (domain = existing keys)
    latencyKeys,                  \* index: priority -> stored latency (metrics:latency:<p>)
    queueDepthByPriority,         \* MetricsCollector
    processingLatencyByPriority,  \* MetricsCollector
    messageProcessingStartTimes,  \* MetricsCollector: id -> start time (domain = keys)
    connected,                    \* RedisManager.connected
    call,                         \* the last facade call: operation, inputs, outcome
    receivers,                    \* consumer -> its receiveMessages call in progress
    leases                        \* transport: id -> consumer it is leased to, 0 if visible

transportVars == <<messageIdCounter, sqs, handles>>
indexVars == <<priorityQueue, messageMetadata, latencyKeys>>
metricsVars == <<queueDepthByPriority, processingLatencyByPriority, messageProcessingStartTimes>>
concVars == <<receivers, leases>>
vars == <<now, messageIdCounter, sqs, handles, priorityQueue,
          messageMetadata, latencyKeys, queueDepthByPriority,
          processingLatencyByPriority, messageProcessingStartTimes, connected, call,
          receivers, leases>>

\* ------------------------------------------------------------------------
\* Helpers
\* ------------------------------------------------------------------------
Min(a, b) == IF a <= b THEN a ELSE b
Max(a, b) == IF a >= b THEN a ELSE b
Range(s) == {s[i] : i \in 1..Len(s)}

RECURSIVE SumOver(_, _)
SumOver(f, S) ==
    IF S = {} THEN 0
    ELSE LET x == CHOOSE y \in S : TRUE IN f[x] + SumOver(f, S \ {x})

\* all sequences of distinct elements of S with length at most n
RECURSIVE DistinctSeqs(_, _)
DistinctSeqs(S, n) ==
    IF n = 0 \/ S = {} THEN {<<>>}
    ELSE {<<>>} \cup UNION {{<<x>> \o t : t \in DistinctSeqs(S \ {x}, n - 1)} : x \in S}

\* ------------------------------------------------------------------------
\* config/index.ts
\* ------------------------------------------------------------------------
\* the validation without its upper bound
isValidPriorityNoUpperBound(priority, priorityLevels) ==
    priority \in Int /\ priority >= 0

isValidPriority(priority, priorityLevels) ==
    priority \in Int /\ priority >= 0 /\ priority < priorityLevels

\* ------------------------------------------------------------------------
\* Redis sorted sets (zAdd / zRem / zCard / zRange)
\* ------------------------------------------------------------------------
\* members in ascending score order, equal scores in ascending member order
RECURSIVE SortedMembers(_)
SortedMembers(zset) ==
    IF zset = {} THEN <<>>
    ELSE LET first == CHOOSE e \in zset : \A o \in zset :
                          \/ e.score < o.score
                          \/ (e.score = o.score /\ e.member <= o.member)
         IN <<first.member>> \o SortedMembers(zset \ {first})

zAdd(zset, score, member) ==
    {e \in zset : e.member /= member} \cup {[member |-> member, score |-> score]}

zRem(zset, member) == {e \in zset : e.member /= member}

zCard(zset) == Cardinality(zset)

\* zRange(key, start, stop) with non-negative ranks, stop inclusive
zRange(zset, start, stop) ==
    LET s == SortedMembers(zset)
    IN SubSeq(s, start + 1, Min(stop + 1, Len(s)))

\* ------------------------------------------------------------------------
\* RedisManager
\* ------------------------------------------------------------------------
\* addMessage: metadata record with sentAt = now and receiveCount = 0, then
\* zAdd with score = now
addMessageMetadata(md, messageId, priority, t) ==
    [k \in (DOMAIN md) \cup {messageId} |->
        IF k = messageId
        THEN [id |-> messageId, priority |-> priority, sentAt |-> t,
              firstReceivedAt |-> NoValue, lastReceivedAt |-> NoValue,
              receiveCount |-> 0]
        ELSE md[k]]

\* addMessage that also enters the id in the class below
addMessageQueueTwoClasses(pq, messageId, priority, t) ==
    [p \in DOMAIN pq |->
        IF p = priority \/ p = priority - 1 THEN zAdd(pq[p], t, messageId) ELSE pq[p]]

addMessageQueue(pq, messageId, priority, t) ==
    [pq EXCEPT ![priority] = zAdd(@, t, messageId)]

\* queueSizes[priority] = zCard of every configured priority
QueueSizes(pq) == [p \in Priorities |-> zCard(pq[p])]

\* the trigger looking at class 0 as well
PreventStarvationAnyClass(queueSizes, starvationThreshold) ==
    \E p \in 0..(PRIORITY_LEVELS - 1) : queueSizes[p] > starvationThreshold

\* some priority 1..N-1 holds more than the threshold
PreventStarvation(queueSizes, starvationThreshold) ==
    \E p \in 1..(PRIORITY_LEVELS - 1) : queueSizes[p] > starvationThreshold

\* the <<messagesRemaining, size, totalMessages>> up to 22, 20 and 60 whose
\* double product messagesRemaining * (size / totalMessages) lies below the
\* whole number it stands for: 22 * (15 / 22) is 14.999999999999998
DoubleProductBelow == {<<22, 15, 22>>}

\* Math.floor(messagesRemaining * (size / totalMessages)) in double arithmetic
ProportionalAllocation(messagesRemaining, size, totalMessages) ==
    IF <<messagesRemaining, size, totalMessages>> \in DoubleProductBelow
    THEN ((messagesRemaining * size) \div totalMessages) - 1
    ELSE (messagesRemaining * size) \div totalMessages

StarvationToTake(messagesRemaining, size, totalMessages, allocated) ==
    Min(Min(Max(1, ProportionalAllocation(messagesRemaining, size, totalMessages)),
            size),
        messagesRemaining - allocated)

\* the loop of the starvation branch, from class `priority` on
RECURSIVE StarvationLoop(_, _, _, _, _, _, _)
StarvationLoop(pq, queueSizes, messagesRemaining, totalMessages, priority, allocated, result) ==
    IF priority >= PRIORITY_LEVELS THEN result
    ELSE IF queueSizes[priority] > 0
    THEN LET toTake == StarvationToTake(messagesRemaining, queueSizes[priority],
                                        totalMessages, allocated)
         IN IF toTake > 0
            THEN LET messages == zRange(pq[priority], 0, toTake - 1)
                     newAllocated == allocated + Len(messages)
                 IN IF newAllocated >= messagesRemaining
                    THEN result \o messages
                    ELSE StarvationLoop(pq, queueSizes, messagesRemaining, totalMessages,
                                        priority + 1, newAllocated, result \o messages)
            ELSE StarvationLoop(pq, queueSizes, messagesRemaining, totalMessages,
                                priority + 1, allocated, result)
    ELSE StarvationLoop(pq, queueSizes, messagesRemaining, totalMessages,
                        priority + 1, allocated, result)

\* the normal branch taking a whole class whatever room is left
RECURSIVE NormalLoopNoCap(_, _, _, _, _)
NormalLoopNoCap(pq, queueSizes, maxMessages, priority, result) ==
    IF priority >= PRIORITY_LEVELS THEN result
    ELSE IF queueSizes[priority] > 0
    THEN LET toTake == queueSizes[priority]
         IN IF toTake > 0
            THEN LET messages == zRange(pq[priority], 0, toTake - 1)
                 IN IF Len(result \o messages) >= maxMessages
                    THEN result \o messages
                    ELSE NormalLoopNoCap(pq, queueSizes, maxMessages, priority + 1,
                                         result \o messages)
            ELSE NormalLoopNoCap(pq, queueSizes, maxMessages, priority + 1, result)
    ELSE NormalLoopNoCap(pq, queueSizes, maxMessages, priority + 1, result)

\* the normal branch putting each class in front of the classes before it
RECURSIVE NormalLoopPrepends(_, _, _, _, _)
NormalLoopPrepends(pq, queueSizes, maxMessages, priority, result) ==
    IF priority >= PRIORITY_LEVELS THEN result
    ELSE IF queueSizes[priority] > 0
    THEN LET toTake == Min(maxMessages - Len(result), queueSizes[priority])
         IN IF toTake > 0
            THEN LET messages == zRange(pq[priority], 0, toTake - 1)
                 IN IF Len(messages \o result) >= maxMessages
                    THEN messages \o result
                    ELSE NormalLoopPrepends(pq, queueSizes, maxMessages, priority + 1,
                                            messages \o result)
            ELSE NormalLoopPrepends(pq, queueSizes, maxMessages, priority + 1, result)
    ELSE NormalLoopPrepends(pq, queueSizes, maxMessages, priority + 1, result)

\* the loop of the normal branch, from class `priority` on
RECURSIVE NormalLoop(_, _, _, _, _)
NormalLoop(pq, queueSizes, maxMessages, priority, result) ==
    IF priority >= PRIORITY_LEVELS THEN result
    ELSE IF queueSizes[priority] > 0
    THEN LET toTake == Min(maxMessages - Len(result), queueSizes[priority])
         IN IF toTake > 0
            THEN LET messages == zRange(pq[priority], 0, toTake - 1)
                 IN IF Len(result \o messages) >= maxMessages
                    THEN result \o messages
                    ELSE NormalLoop(pq, queueSizes, maxMessages, priority + 1,
                                    result \o messages)
            ELSE NormalLoop(pq, queueSizes, maxMessages, priority + 1, result)
    ELSE NormalLoop(pq, queueSizes, maxMessages, priority + 1, result)

\* candidate selection from the sizes seen at the depth check and the sorted
\* sets seen at the peeks
SelectMessages(queueSizes, pq, maxMessages, starvationThreshold) ==
    IF PreventStarvation(queueSizes, starvationThreshold)
    THEN LET totalMessages == SumOver(queueSizes, Priorities)
             messagesRemaining == Min(maxMessages, totalMessages)
         IN IF messagesRemaining > 0
            THEN StarvationLoop(pq, queueSizes, messagesRemaining, totalMessages,
                                0, 0, <<>>)
            ELSE <<>>
    ELSE NormalLoop(pq, queueSizes, maxMessages, 0, <<>>)

getNextMessages(pq, maxMessages, starvationThreshold) ==
    SelectMessages(QueueSizes(pq), pq, maxMessages, starvationThreshold)

\* markMessageAsReceived that stamps the times but forgets the counter
markMessageAsReceivedNoCount(md, messageId, t) ==
    IF messageId \in DOMAIN md
    THEN [md EXCEPT ![messageId] =
            [@ EXCEPT !.lastReceivedAt = t,
                      !.firstReceivedAt = IF @ = NoValue THEN t ELSE @]]
    ELSE md

\* markMessageAsReceived that stamps firstReceivedAt on every receive
markMessageAsReceivedRestamps(md, messageId, t) ==
    IF messageId \in DOMAIN md
    THEN [md EXCEPT ![messageId] =
            [@ EXCEPT !.lastReceivedAt = t,
                      !.firstReceivedAt = t,
                      !.receiveCount = @ + 1]]
    ELSE md

\* markMessageAsReceived: nothing when the record is absent
markMessageAsReceived(md, messageId, t) ==
    IF messageId \in DOMAIN md
    THEN [md EXCEPT ![messageId] =
            [@ EXCEPT !.lastReceivedAt = t,
                      !.firstReceivedAt = IF @ = NoValue THEN t ELSE @,
                      !.receiveCount = @ + 1]]
    ELSE md

\* removeMessage that forgets the zRem
removeMessageQueueNoZRem(pq, messageId, priority) == pq

\* removeMessage: zRem on the key of the given priority, then del of the record
removeMessageQueue(pq, messageId, priority) ==
    [pq EXCEPT ![priority] = zRem(@, messageId)]

\* removeMessage that forgets the del of the record
removeMessageMetadataKeeps(md, messageId) == md

removeMessageMetadata(md, messageId) ==
    [k \in (DOMAIN md) \ {messageId} |-> md[k]]

getQueueDepthByPriority(pq) == [p \in Priorities |-> zCard(pq[p])]

\* RedisManager.getProcessingLatencyByPriority reads the metrics:latency keys
getProcessingLatencyByPriority(lat) == [p \in Priorities |-> lat[p]]

\* ------------------------------------------------------------------------
\* MetricsCollector
\* ------------------------------------------------------------------------
initializeMetrics == [p \in Priorities |-> 0]

updateQueueDepth(qd, priority, depth) ==
    IF priority >= 0 /\ priority < PRIORITY_LEVELS
    THEN [qd EXCEPT ![priority] = depth]
    ELSE qd

\* Object.entries(queueDepth).forEach(updateQueueDepth)
RefreshQueueDepth(qd, depths) ==
    [p \in Priorities |-> updateQueueDepth(qd, p, depths[p])[p]]

startMessageProcessing(starts, messageId, t) ==
    [k \in (DOMAIN starts) \cup {messageId} |-> IF k = messageId THEN t ELSE starts[k]]

\* the moving average cut off instead of rounded
MovingAverageTruncates(currentLatency, processingTime) ==
    IF currentLatency = 0
    THEN processingTime
    ELSE (9 * currentLatency + processingTime) \div 10

\* Math.round(currentLatency * 0.9 + processingTime * 0.1), exact for the
\* values the model uses
MovingAverage(currentLatency, processingTime) ==
    IF currentLatency = 0
    THEN processingTime
    ELSE (9 * currentLatency + processingTime + 5) \div 10

EndProcessingApplies(starts, messageId, priority) ==
    /\ messageId \in DOMAIN starts
    /\ starts[messageId] /= 0
    /\ priority >= 0
    /\ priority < PRIORITY_LEVELS

endMessageProcessingLatency(lat, starts, messageId, priority, t) ==
    IF EndProcessingApplies(starts, messageId, priority)
    THEN [lat EXCEPT ![priority] = MovingAverage(@, t - starts[messageId])]
    ELSE lat

endMessageProcessingStarts(starts, messageId, priority) ==
    IF EndProcessingApplies(starts, messageId, priority)
    THEN [k \in (DOMAIN starts) \ {messageId} |-> starts[k]]
    ELSE starts

\* ------------------------------------------------------------------------
\* Transport (SQS), an external collaborator
\* ------------------------------------------------------------------------
\* a receive returns at most maxMessages stored messages, any of them, in any
\* order (visibility timeouts may have run out; a long poll may return none)
SqsBatches(stored, maxMessages) == DistinctSeqs(stored, Min(maxMessages, Cardinality(stored)))

\* ------------------------------------------------------------------------
\* The record of a facade call
\* ------------------------------------------------------------------------
NoCall ==
    [op |-> "none", priority |-> 0, messageId |-> NoValue, receiptHandle |-> NoValue,
     withId |-> FALSE, maxMessages |-> 0, threshold |-> 0, error |-> "none", transportCalled |-> FALSE,
     starving |-> FALSE, candidates |-> <<>>, batch |-> <<>>, result |-> <<>>,
     failure |-> "none", answer |-> initializeMetrics, clientCalled |-> FALSE]

\* ------------------------------------------------------------------------
\* receiveMessages calls in progress, one per consumer, and the transport's
\* visibility leases
\* ------------------------------------------------------------------------
Consumers == 1..2

\* pc: the await the call stands at; returned: the ids of the transport's
\* response; batch: sqsMessages; i: the loop position; metadata: the record
\* the loop has looked up; read: the record markMessageAsReceived has read;
\* prioritized: prioritizedMessages
Idle ==
    [pc |-> "idle", maxMessages |-> 0, candidates |-> <<>>, returned |-> {},
     batch |-> <<>>, i |-> 0, metadata |-> <<>>, read |-> <<>>, prioritized |-> <<>>]

NoReceivers == [c \in Consumers |-> Idle]
NoLeases == [id \in Ids |-> 0]

\* ------------------------------------------------------------------------
\* PriorityQueueService.receiveMessages: the loop over the transport's batch
\* ------------------------------------------------------------------------
PriorityMessage(sqsMessageId, metadata) ==
    [id |-> sqsMessageId, priority |-> metadata.priority,
     sentTimestamp |-> metadata.sentAt,
     firstReceiveTimestamp |-> metadata.firstReceivedAt,
     receiveCount |-> metadata.receiveCount]

\* the loop starting the processing clock before it looks the record up
RECURSIVE ReceiveLoopTracksAll(_, _, _, _, _, _)
ReceiveLoopTracksAll(batch, i, md, starts, prioritized, t) ==
    IF i > Len(batch)
    THEN [md |-> md, starts |-> starts, prioritized |-> prioritized]
    ELSE IF batch[i] \in DOMAIN md
    THEN ReceiveLoopTracksAll(batch, i + 1,
                     markMessageAsReceived(md, batch[i], t),
                     startMessageProcessing(starts, batch[i], t),
                     Append(prioritized, PriorityMessage(batch[i], md[batch[i]])),
                     t)
    ELSE ReceiveLoopTracksAll(batch, i + 1, md,
                     startMessageProcessing(starts, batch[i], t), prioritized, t)

\* state of the loop: the metadata store, the start times and the result list
RECURSIVE ReceiveLoop(_, _, _, _, _, _)
ReceiveLoop(batch, i, md, starts, prioritized, t) ==
    IF i > Len(batch)
    THEN [md |-> md, starts |-> starts, prioritized |-> prioritized]
    ELSE IF batch[i] \in DOMAIN md
    THEN ReceiveLoop(batch, i + 1,
                     markMessageAsReceived(md, batch[i], t),
                     startMessageProcessing(starts, batch[i], t),
                     Append(prioritized, PriorityMessage(batch[i], md[batch[i]])),
                     t)
    ELSE ReceiveLoop(batch, i + 1, md, starts, prioritized, t)

EffectiveMaxMessages(given) == IF given = 0 THEN MAX_MESSAGES ELSE given

\* ------------------------------------------------------------------------
\* Initial state: a service after connect(), empty transport, empty index
\* ------------------------------------------------------------------------
Init ==
    /\ now = 1
    /\ messageIdCounter = 1
    /\ sqs = {}
    /\ handles = {}
    /\ priorityQueue = [p \in QueueKeys |-> {}]
    /\ messageMetadata = <<>>
    /\ latencyKeys = [p \in Priorities |-> 0]
    /\ queueDepthByPriority = initializeMetrics
    /\ processingLatencyByPriority = initializeMetrics
    /\ messageProcessingStartTimes = <<>>
    /\ connected = TRUE
    /\ call = NoCall
    /\ receivers = NoReceivers
    /\ leases = NoLeases

\* ------------------------------------------------------------------------
\* Actions
\* ------------------------------------------------------------------------
\* the clock advances
Tick ==
    /\ now < MaxTime
    /\ now' = now + 1
    /\ UNCHANGED <<transportVars, indexVars, metricsVars, connected, call, concVars>>

\* sendMessage with a priority that fails validation
SendMessageInvalid(priority) ==
    /\ ~isValidPriority(priority, PRIORITY_LEVELS)
    /\ call' = [NoCall EXCEPT !.op = "sendMessage", !.priority = priority,
                              !.error = "InvalidPriority"]
    /\ UNCHANGED <<now, transportVars, indexVars, metricsVars, connected, concVars>>

\* sendMessage once the transport has stored the message under messageId:
\* addMessage, depth metrics
SendMessageAs(priority, messageId) ==
    /\ isValidPriority(priority, PRIORITY_LEVELS)
    /\ connected
    /\ sqs' = sqs \cup {messageId}
    /\ messageMetadata' = addMessageMetadata(messageMetadata, messageId, priority, now)
    /\ priorityQueue' = addMessageQueue(priorityQueue, messageId, priority, now)
    /\ queueDepthByPriority' =
           RefreshQueueDepth(queueDepthByPriority, getQueueDepthByPriority(priorityQueue'))
    /\ call' = [NoCall EXCEPT !.op = "sendMessage", !.priority = priority,
                              !.messageId = messageId, !.transportCalled = TRUE]
    /\ UNCHANGED <<now, latencyKeys, processingLatencyByPriority,
                   messageProcessingStartTimes, connected, concVars>>

\* sendMessage: the transport hands out the next id
SendMessageOk(priority, messageId) ==
    /\ messageIdCounter <= MaxMsgs
    /\ messageId = messageIdCounter
    /\ messageIdCounter' = messageIdCounter + 1
    /\ SendMessageAs(priority, messageId)
    /\ UNCHANGED handles

SendMessage ==
    \E priority \in PriorityInputs :
        \/ SendMessageInvalid(priority)
        \/ \E messageId \in Ids : SendMessageOk(priority, messageId)

\* the fast path polling the transport all the same
ReceiveMessagesNoCandidatesPolls(given) ==
    LET maxMessages == EffectiveMaxMessages(given)
        messageIds == getNextMessages(priorityQueue, maxMessages, StarvationThreshold)
    IN /\ connected
       /\ messageIds = <<>>
       /\ \E batch \in SqsBatches(sqs, maxMessages) :
              /\ handles' = handles \cup Range(batch)
              /\ call' = [NoCall EXCEPT !.op = "receiveMessages", !.maxMessages = given,
                                        !.transportCalled = TRUE, !.batch = batch]
       /\ UNCHANGED <<now, messageIdCounter, sqs, indexVars, metricsVars, connected, concVars>>

\* receiveMessages when the index offers no candidate: no transport call
ReceiveMessagesNoCandidates(given) ==
    LET maxMessages == EffectiveMaxMessages(given)
        messageIds == getNextMessages(priorityQueue, maxMessages, StarvationThreshold)
    IN /\ connected
       /\ messageIds = <<>>
       /\ call' = [NoCall EXCEPT !.op = "receiveMessages", !.maxMessages = given]
       /\ UNCHANGED <<now, transportVars, indexVars, metricsVars, connected, concVars>>

\* a receive that takes the messages it surfaces out of their class queues
ReceiveMessagesFetchPops(given, batch) ==
    LET maxMessages == EffectiveMaxMessages(given)
        queueSizes == QueueSizes(priorityQueue)
        messageIds == getNextMessages(priorityQueue, maxMessages, StarvationThreshold)
        done == ReceiveLoop(batch, 1, messageMetadata, messageProcessingStartTimes, <<>>, now)
    IN /\ connected
       /\ messageIds /= <<>>
       /\ batch \in SqsBatches(sqs, maxMessages)
       /\ \A i \in 1..Len(batch) :
              batch[i] \in DOMAIN messageMetadata
                  => messageMetadata[batch[i]].receiveCount < MaxReceives
       /\ handles' = handles \cup Range(batch)
       /\ priorityQueue' =
              [p \in QueueKeys |->
                  {e \in priorityQueue[p] :
                      \A k \in 1..Len(done.prioritized) :
                          batch = <<>> \/ done.prioritized[k].id /= e.member}]
       /\ IF batch = <<>>
          THEN UNCHANGED <<messageMetadata, metricsVars>>
          ELSE /\ messageMetadata' = done.md
               /\ messageProcessingStartTimes' = done.starts
               /\ queueDepthByPriority' =
                      RefreshQueueDepth(queueDepthByPriority,
                                        getQueueDepthByPriority(priorityQueue'))
               /\ UNCHANGED processingLatencyByPriority
       /\ call' = [NoCall EXCEPT !.op = "receiveMessages", !.maxMessages = given,
                                 !.threshold = StarvationThreshold,
                                 !.transportCalled = TRUE,
                                 !.starving = PreventStarvation(queueSizes,
                                                  StarvationThreshold),
                                 !.candidates = messageIds, !.batch = batch,
                                 !.result = IF batch = <<>> THEN <<>> ELSE done.prioritized]
       /\ UNCHANGED <<now, messageIdCounter, sqs, latencyKeys, connected, concVars>>

\* receiveMessages with candidates: one transport receive, then the loop
ReceiveMessagesFetch(given, batch) ==
    LET maxMessages == EffectiveMaxMessages(given)
        queueSizes == QueueSizes(priorityQueue)
        messageIds == getNextMessages(priorityQueue, maxMessages, StarvationThreshold)
        done == ReceiveLoop(batch, 1, messageMetadata, messageProcessingStartTimes, <<>>, now)
    IN /\ connected
       /\ messageIds /= <<>>
       /\ batch \in SqsBatches(sqs, maxMessages)
       /\ \A i \in 1..Len(batch) :
              batch[i] \in DOMAIN messageMetadata
                  => messageMetadata[batch[i]].receiveCount < MaxReceives
       /\ handles' = handles \cup Range(batch)
       /\ IF batch = <<>>
          THEN UNCHANGED <<messageMetadata, metricsVars>>
          ELSE /\ messageMetadata' = done.md
               /\ messageProcessingStartTimes' = done.starts
               /\ queueDepthByPriority' =
                      RefreshQueueDepth(queueDepthByPriority,
                                        getQueueDepthByPriority(priorityQueue))
               /\ UNCHANGED processingLatencyByPriority
       /\ call' = [NoCall EXCEPT !.op = "receiveMessages", !.maxMessages = given,
                                 !.threshold = StarvationThreshold,
                                 !.transportCalled = TRUE,
                                 !.starving = PreventStarvation(queueSizes,
                                                  StarvationThreshold),
                                 !.candidates = messageIds, !.batch = batch,
                                 !.result = IF batch = <<>> THEN <<>> ELSE done.prioritized]
       /\ UNCHANGED <<now, messageIdCounter, sqs, priorityQueue, latencyKeys, connected, concVars>>

ReceiveMessages ==
    \E given \in MaxMessagesInputs :
        \/ ReceiveMessagesNoCandidates(given)
        \/ \E batch \in SqsBatches(sqs, EffectiveMaxMessages(given)) :
               ReceiveMessagesFetch(given, batch)

\* deleteMessage(receiptHandle, messageId, priority): transport delete, then
\* removeMessage, endMessageProcessing and the depth metrics
DeleteMessageWithId(receiptHandle, messageId, priority) ==
    /\ receiptHandle \in handles
    /\ connected
    /\ sqs' = sqs \ {receiptHandle}
    /\ priorityQueue' = removeMessageQueue(priorityQueue, messageId, priority)
    /\ messageMetadata' = removeMessageMetadata(messageMetadata, messageId)
    /\ processingLatencyByPriority' =
           endMessageProcessingLatency(processingLatencyByPriority,
                                       messageProcessingStartTimes, messageId, priority, now)
    /\ messageProcessingStartTimes' =
           endMessageProcessingStarts(messageProcessingStartTimes, messageId, priority)
    /\ queueDepthByPriority' =
           RefreshQueueDepth(queueDepthByPriority, getQueueDepthByPriority(priorityQueue'))
    /\ call' = [NoCall EXCEPT !.op = "deleteMessage", !.receiptHandle = receiptHandle,
                              !.messageId = messageId, !.priority = priority,
                              !.withId = TRUE, !.transportCalled = TRUE]
    /\ UNCHANGED <<now, messageIdCounter, handles, latencyKeys, connected, concVars>>

\* the handle-only delete cleaning the index of the message it acknowledges
DeleteMessageHandleOnlyCleans(receiptHandle) ==
    /\ receiptHandle \in handles
    /\ sqs' = sqs \ {receiptHandle}
    /\ priorityQueue' = [p \in QueueKeys |-> zRem(priorityQueue[p], receiptHandle)]
    /\ messageMetadata' = removeMessageMetadata(messageMetadata, receiptHandle)
    /\ call' = [NoCall EXCEPT !.op = "deleteMessage", !.receiptHandle = receiptHandle,
                              !.transportCalled = TRUE]
    /\ UNCHANGED <<now, messageIdCounter, handles, latencyKeys, metricsVars, connected, concVars>>

\* deleteMessage(receiptHandle): the transport delete only
DeleteMessageHandleOnly(receiptHandle) ==
    /\ receiptHandle \in handles
    /\ sqs' = sqs \ {receiptHandle}
    /\ call' = [NoCall EXCEPT !.op = "deleteMessage", !.receiptHandle = receiptHandle,
                              !.transportCalled = TRUE]
    /\ UNCHANGED <<now, messageIdCounter, handles, indexVars, metricsVars, connected, concVars>>

DeleteMessage ==
    \E receiptHandle \in Ids :
        \/ DeleteMessageHandleOnly(receiptHandle)
        \/ \E messageId \in Ids, priority \in DeletePriorityInputs :
               DeleteMessageWithId(receiptHandle, messageId, priority)

\* purgeQueue: transport purge, then MetricsCollector.resetMetrics
PurgeQueue ==
    /\ sqs' = {}
    /\ queueDepthByPriority' = initializeMetrics
    /\ processingLatencyByPriority' = initializeMetrics
    /\ messageProcessingStartTimes' = <<>>
    /\ call' = [NoCall EXCEPT !.op = "purgeQueue", !.transportCalled = TRUE]
    /\ UNCHANGED <<now, messageIdCounter, handles, indexVars, connected, concVars>>

Next ==
    \/ Tick
    \/ SendMessage
    \/ ReceiveMessages
    \/ DeleteMessage
    \/ PurgeQueue

Spec == Init /\ [][Next]_vars

\* ------------------------------------------------------------------------
\* Candidate selection on its own: RedisManager.getNextMessages applied to
\* every backlog of up to MaxDepth messages per class
\* ------------------------------------------------------------------------
DepthVectors == [Priorities -> 0..MaxDepth]
DispatchMaxMessages == {1, 3, MAX_MESSAGES}
DispatchThresholds == 1..MaxDispatchThreshold
\* small thresholds with every batch size, a batch of 15 under the default
\* threshold and a batch of 22 under the smallest
DispatchInputs ==
    (DispatchMaxMessages \X DispatchThresholds)
        \cup {<<15, STARVATION_PREVENTION_THRESHOLD>>, <<22, 1>>}

\* the ids of class p when the classes hold depths[q] messages each, numbered
\* class after class
ClassOffset(depths, p) == SumOver(depths, {q \in Priorities : q < p})
ClassIds(depths, p) == (ClassOffset(depths, p) + 1)..(ClassOffset(depths, p) + depths[p])
BacklogIds(depths) == 1..SumOver(depths, Priorities)
ClassOfId(depths, id) == CHOOSE p \in Priorities : id \in ClassIds(depths, p)

\* the state after depths[p] sendMessage calls per class, none received yet
InitDispatch ==
    \E depths \in DepthVectors :
        /\ now = 1
        /\ messageIdCounter = SumOver(depths, Priorities) + 1
        /\ sqs = BacklogIds(depths)
        /\ handles = {}
        /\ priorityQueue =
               [p \in QueueKeys |->
                   IF p \in Priorities
                   THEN {[member |-> id, score |-> 1] : id \in ClassIds(depths, p)}
                   ELSE {}]
        /\ messageMetadata =
               [id \in BacklogIds(depths) |->
                   [id |-> id, priority |-> ClassOfId(depths, id), sentAt |-> 1,
                    firstReceivedAt |-> NoValue, lastReceivedAt |-> NoValue,
                    receiveCount |-> 0]]
        /\ latencyKeys = [p \in Priorities |-> 0]
        /\ queueDepthByPriority = depths
        /\ processingLatencyByPriority = initializeMetrics
        /\ messageProcessingStartTimes = <<>>
        /\ connected = TRUE
        /\ call = NoCall
        /\ receivers = NoReceivers
        /\ leases = NoLeases

\* a selection that takes its candidates out of the class queues
GetNextMessagesPops ==
    \E input \in DispatchInputs :
      LET maxMessages == input[1]
          starvationThreshold == input[2]
          candidates == getNextMessages(priorityQueue, maxMessages, starvationThreshold)
      IN
        /\ connected
        /\ call' = [NoCall EXCEPT
                        !.op = "getNextMessages", !.maxMessages = maxMessages,
                        !.threshold = starvationThreshold,
                        !.starving = PreventStarvation(QueueSizes(priorityQueue),
                                                       starvationThreshold),
                        !.candidates = candidates]
        /\ priorityQueue' =
               [p \in QueueKeys |-> {e \in priorityQueue[p] : e.member \notin Range(candidates)}]
        /\ UNCHANGED <<now, transportVars, messageMetadata, latencyKeys, metricsVars,
                       connected, concVars>>

\* one getNextMessages(maxMessages, starvationThreshold) call
GetNextMessages ==
    \E input \in DispatchInputs :
      LET maxMessages == input[1]
          starvationThreshold == input[2]
      IN
        /\ call' = IF connected
                   THEN [NoCall EXCEPT
                            !.op = "getNextMessages", !.maxMessages = maxMessages,
                            !.threshold = starvationThreshold,
                            !.starving = PreventStarvation(QueueSizes(priorityQueue),
                                                           starvationThreshold),
                            !.candidates = getNextMessages(priorityQueue, maxMessages,
                                                           starvationThreshold)]
                   ELSE [NoCall EXCEPT
                            !.op = "getNextMessages", !.maxMessages = maxMessages,
                            !.threshold = starvationThreshold,
                            !.error = "NotConnected", !.failure = "notConnected"]
        /\ UNCHANGED <<now, transportVars, indexVars, metricsVars, connected, concVars>>

NextDispatch == GetNextMessages

SpecDispatch == InitDispatch /\ [][NextDispatch]_vars

\* ------------------------------------------------------------------------
\* Consumers that acknowledge with the message's own id and class: the
\* lifecycle without purge and without mismatched deletes
\* ------------------------------------------------------------------------
\* deleteMessage(handle of id, id, class of id); a repeated delete of an
\* already deleted message may name any class (its own class among them)
DeleteReceived ==
    \E messageId \in handles \cap DOMAIN messageMetadata :
        DeleteMessageWithId(messageId, messageId, messageMetadata[messageId].priority)

DeleteAgain ==
    \E messageId \in handles \ DOMAIN messageMetadata, priority \in Priorities :
        /\ messageId \notin sqs
        /\ DeleteMessageWithId(messageId, messageId, priority)

DeleteOwn ==
    \/ DeleteReceived
    \/ DeleteAgain

NextOwn ==
    \/ Tick
    \/ SendMessage
    \/ ReceiveMessages
    \/ DeleteOwn

SpecOwn == Init /\ [][NextOwn]_vars

\* ------------------------------------------------------------------------
\* Sustained load: producers never run out of ids, consumers poll and
\* acknowledge for ever.  The transport's ids are opaque, so an id that the
\* transport, the index and the metrics have all forgotten stands for a
\* fresh one; the transport hands each receive the candidates of that call.
\* ------------------------------------------------------------------------
InSomeQueue(id) == \E p \in QueueKeys : \E e \in priorityQueue[p] : e.member = id

Forgotten(id) ==
    /\ id \notin sqs
    /\ ~InSomeQueue(id)
    /\ id \notin DOMAIN messageMetadata
    /\ id \notin DOMAIN messageProcessingStartTimes

LiveSend ==
    \E priority \in Priorities, messageId \in Ids :
        /\ Forgotten(messageId)
        /\ SendMessageAs(priority, messageId)
        /\ handles' = handles \ {messageId}
        /\ UNCHANGED messageIdCounter

\* the candidates the transport stores, in candidate order
CandidateBatch(given) ==
    LET InTransport(id) == id \in sqs
    IN SelectSeq(getNextMessages(priorityQueue, EffectiveMaxMessages(given),
                                 StarvationThreshold),
                 InTransport)

LiveReceive ==
    \E given \in MaxMessagesInputs :
        \/ ReceiveMessagesNoCandidates(given)
        \/ \E batch \in {CandidateBatch(given)} : ReceiveMessagesFetch(given, batch)

NextLive ==
    \/ LiveSend
    \/ LiveReceive
    \/ DeleteReceived

SpecLive ==
    /\ Init
    /\ [][NextLive]_vars
    /\ WF_vars(LiveSend)
    /\ WF_vars(LiveReceive)
    /\ WF_vars(DeleteReceived)

\* ------------------------------------------------------------------------
\* Failures: the service from its construction on, with connect/disconnect,
\* a transport whose calls may throw and an index whose commands may throw.
\* A handler that throws keeps the writes it made before the throw.
\* ------------------------------------------------------------------------
InitFault ==
    /\ now = 1
    /\ messageIdCounter = 1
    /\ sqs = {}
    /\ handles = {}
    /\ priorityQueue = [p \in QueueKeys |-> {}]
    /\ messageMetadata = <<>>
    /\ latencyKeys = [p \in Priorities |-> 0]
    /\ queueDepthByPriority = initializeMetrics
    /\ processingLatencyByPriority = initializeMetrics
    /\ messageProcessingStartTimes = <<>>
    /\ connected = FALSE
    /\ call = NoCall
    /\ receivers = NoReceivers
    /\ leases = NoLeases

\* connect(): client.connect(), then connected = true
Connect ==
    /\ ~connected
    /\ connected' = TRUE
    /\ call' = [NoCall EXCEPT !.op = "connect", !.clientCalled = TRUE]
    /\ UNCHANGED <<now, transportVars, indexVars, metricsVars, concVars>>

\* disconnect() that skips the connected check and always calls quit
DisconnectAlwaysQuits ==
    /\ connected' = FALSE
    /\ call' = [NoCall EXCEPT !.op = "disconnect", !.clientCalled = TRUE]
    /\ UNCHANGED <<now, transportVars, indexVars, metricsVars, concVars>>

\* disconnect(): client.quit() and connected = false, only when connected
Disconnect ==
    /\ connected' = FALSE
    /\ call' = [NoCall EXCEPT !.op = "disconnect", !.clientCalled = connected]
    /\ UNCHANGED <<now, transportVars, indexVars, metricsVars, concVars>>

\* connect() whose client.connect() rejects (the session is down, or the
\* client is connected already): the error is rethrown, the flag is not touched
ConnectFails ==
    /\ call' = [NoCall EXCEPT !.op = "connect", !.clientCalled = TRUE,
                              !.error = "BackendError", !.failure = "connect"]
    /\ UNCHANGED <<now, transportVars, indexVars, metricsVars, connected, concVars>>

\* disconnect() whose client.quit() rejects: the error leaves the call before
\* connected = false is reached
DisconnectFails ==
    /\ connected
    /\ call' = [NoCall EXCEPT !.op = "disconnect", !.clientCalled = TRUE,
                              !.error = "BackendError", !.failure = "quit"]
    /\ UNCHANGED <<now, transportVars, indexVars, metricsVars, connected, concVars>>

\* the client's 'error' event: connected = false
ClientError ==
    /\ connected
    /\ connected' = FALSE
    /\ call' = [NoCall EXCEPT !.op = "clientError"]
    /\ UNCHANGED <<now, transportVars, indexVars, metricsVars, concVars>>

\* the inputs of the calls made while failures are injected: two classes,
\* the default batch size, acknowledgements that name the message's own id
\* and class
FaultPriorities == {0, 1}
FaultMaxMessages == {0}
OwnClass(messageId, priority) ==
    messageId \in DOMAIN messageMetadata => priority = messageMetadata[messageId].priority

\* the command of addMessage that throws: the connection check, set or zAdd
AddMessageFailures == {"notConnected", "set", "zAdd"}
\* the command of removeMessage that throws: the connection check, zRem or del
RemoveMessageFailures == {"notConnected", "zRem", "del"}

ErrorOf(failure) == IF failure = "notConnected" THEN "NotConnected" ELSE "BackendError"

\* the failure can happen: the connection check throws exactly when the
\* session is down, a command can only be sent when it is up
FailureEnabled(failure) == (failure = "notConnected") <=> ~connected

\* addMessage issuing zAdd before set: when its second command throws, the
\* member is in the class queue already
addMessageFailingZAddFirst(md, pq, messageId, priority, t, failure) ==
    [md |-> md,
     pq |-> IF failure = "zAdd" THEN addMessageQueue(pq, messageId, priority, t) ELSE pq]

\* addMessage that throws at `failure`: set comes before zAdd
addMessageFailing(md, pq, messageId, priority, t, failure) ==
    [md |-> IF failure = "zAdd" THEN addMessageMetadata(md, messageId, priority, t) ELSE md,
     pq |-> pq]

\* removeMessage issuing del before zRem: when its second command throws, the
\* record is gone and the member is still in the class queue
removeMessageFailingDelFirst(md, pq, messageId, priority, failure) ==
    [md |-> IF failure = "zRem" THEN removeMessageMetadata(md, messageId) ELSE md,
     pq |-> pq]

\* removeMessage that throws at `failure`: zRem comes before del
removeMessageFailing(md, pq, messageId, priority, failure) ==
    [md |-> md,
     pq |-> IF failure = "del" THEN removeMessageQueue(pq, messageId, priority) ELSE pq]

\* sendMessage whose transport submission registers the message and throws
SendMessageTransportFailsAfterRegister(priority) ==
    /\ isValidPriority(priority, PRIORITY_LEVELS)
    /\ messageIdCounter <= MaxMsgs
    /\ connected
    /\ messageMetadata' = addMessageMetadata(messageMetadata, messageIdCounter, priority, now)
    /\ priorityQueue' = addMessageQueue(priorityQueue, messageIdCounter, priority, now)
    /\ call' = [NoCall EXCEPT !.op = "sendMessage", !.priority = priority,
                              !.error = "TransportError", !.transportCalled = TRUE]
    /\ UNCHANGED <<now, transportVars, latencyKeys, metricsVars, connected, concVars>>

\* sendMessage whose transport submission throws: nothing after it runs
SendMessageTransportFails(priority) ==
    /\ isValidPriority(priority, PRIORITY_LEVELS)
    /\ call' = [NoCall EXCEPT !.op = "sendMessage", !.priority = priority,
                              !.error = "TransportError", !.transportCalled = TRUE]
    /\ UNCHANGED <<now, transportVars, indexVars, metricsVars, connected, concVars>>

\* sendMessage whose addMessage throws after the transport stored the message
SendMessageAddFails(priority, failure) ==
    LET messageId == messageIdCounter
        added == addMessageFailing(messageMetadata, priorityQueue, messageId, priority,
                                   now, failure)
    IN /\ isValidPriority(priority, PRIORITY_LEVELS)
       /\ messageIdCounter <= MaxMsgs
       /\ FailureEnabled(failure)
       /\ messageIdCounter' = messageIdCounter + 1
       /\ sqs' = sqs \cup {messageId}
       /\ messageMetadata' = added.md
       /\ priorityQueue' = added.pq
       /\ call' = [NoCall EXCEPT !.op = "sendMessage", !.priority = priority,
                                 !.messageId = messageId, !.transportCalled = TRUE,
                                 !.error = ErrorOf(failure), !.failure = failure]
       /\ UNCHANGED <<now, handles, latencyKeys, metricsVars, connected, concVars>>

\* sendMessage whose depth query throws after addMessage registered the message
SendMessageDepthFails(priority) ==
    LET messageId == messageIdCounter
    IN /\ isValidPriority(priority, PRIORITY_LEVELS)
       /\ messageIdCounter <= MaxMsgs
       /\ connected
       /\ messageIdCounter' = messageIdCounter + 1
       /\ sqs' = sqs \cup {messageId}
       /\ messageMetadata' = addMessageMetadata(messageMetadata, messageId, priority, now)
       /\ priorityQueue' = addMessageQueue(priorityQueue, messageId, priority, now)
       /\ call' = [NoCall EXCEPT !.op = "sendMessage", !.priority = priority,
                                 !.messageId = messageId, !.transportCalled = TRUE,
                                 !.error = "BackendError", !.failure = "zCard"]
       /\ UNCHANGED <<now, handles, latencyKeys, metricsVars, connected, concVars>>

SendMessageFaulty ==
    \E priority \in FaultPriorities :
        \/ SendMessageOk(priority, messageIdCounter)
        \/ SendMessageTransportFails(priority)
        \/ \E failure \in AddMessageFailures : SendMessageAddFails(priority, failure)
        \/ SendMessageDepthFails(priority)

\* receiveMessages whose getNextMessages throws: the connection check when
\* the session is down, a zCard or zRange otherwise
ReceiveMessagesSelectFails(given, failure) ==
    /\ failure \in {"notConnected", "zCard"}
    /\ FailureEnabled(failure)
    /\ call' = [NoCall EXCEPT !.op = "receiveMessages", !.maxMessages = given,
                              !.error = ErrorOf(failure), !.failure = failure]
    /\ UNCHANGED <<now, transportVars, indexVars, metricsVars, connected, concVars>>

\* receiveMessages whose transport receive throws
ReceiveMessagesTransportFails(given) ==
    LET maxMessages == EffectiveMaxMessages(given)
        messageIds == getNextMessages(priorityQueue, maxMessages, StarvationThreshold)
    IN /\ connected
       /\ messageIds /= <<>>
       /\ call' = [NoCall EXCEPT !.op = "receiveMessages", !.maxMessages = given,
                                 !.candidates = messageIds, !.transportCalled = TRUE,
                                 !.error = "TransportError"]
       /\ UNCHANGED <<now, transportVars, indexVars, metricsVars, connected, concVars>>

\* a failing receiveMessages that undoes the marks it made
ReceiveMessagesLoopFailsRollsBack(given, batch, done) ==
    LET maxMessages == EffectiveMaxMessages(given)
        messageIds == getNextMessages(priorityQueue, maxMessages, StarvationThreshold)
    IN /\ connected
       /\ messageIds /= <<>>
       /\ batch \in SqsBatches(sqs, maxMessages)
       /\ batch /= <<>>
       /\ done \in 0..Len(batch)
       /\ handles' = handles \cup Range(batch)
       /\ call' = [NoCall EXCEPT !.op = "receiveMessages", !.maxMessages = given,
                                 !.candidates = messageIds, !.batch = batch,
                                 !.transportCalled = TRUE, !.error = "BackendError",
                                 !.failure = IF done = Len(batch) THEN "zCard" ELSE "get"]
       /\ UNCHANGED <<now, messageIdCounter, sqs, indexVars, metricsVars, connected, concVars>>

\* receiveMessages whose index throws after `done` messages of the batch were
\* handled: at the lookup or the mark of the next one, or at the depth query
ReceiveMessagesLoopFails(given, batch, done) ==
    LET maxMessages == EffectiveMaxMessages(given)
        messageIds == getNextMessages(priorityQueue, maxMessages, StarvationThreshold)
        handled == ReceiveLoop(SubSeq(batch, 1, done), 1, messageMetadata,
                               messageProcessingStartTimes, <<>>, now)
    IN /\ connected
       /\ messageIds /= <<>>
       /\ batch \in SqsBatches(sqs, maxMessages)
       /\ batch /= <<>>
       /\ done \in 0..Len(batch)
       /\ \A i \in 1..done :
              batch[i] \in DOMAIN messageMetadata
                  => messageMetadata[batch[i]].receiveCount < MaxReceives
       /\ handles' = handles \cup Range(batch)
       /\ messageMetadata' = handled.md
       /\ messageProcessingStartTimes' = handled.starts
       /\ call' = [NoCall EXCEPT !.op = "receiveMessages", !.maxMessages = given,
                                 !.candidates = messageIds, !.batch = batch,
                                 !.transportCalled = TRUE, !.error = "BackendError",
                                 !.failure = IF done = Len(batch) THEN "zCard" ELSE "get"]
       /\ UNCHANGED <<now, messageIdCounter, sqs, priorityQueue, latencyKeys,
                      queueDepthByPriority, processingLatencyByPriority, connected, concVars>>

ReceiveMessagesFaulty ==
    \E given \in FaultMaxMessages :
        \/ ReceiveMessagesNoCandidates(given)
        \/ \E batch \in SqsBatches(sqs, EffectiveMaxMessages(given)) :
               ReceiveMessagesFetch(given, batch)
        \/ \E failure \in {"notConnected", "zCard"} : ReceiveMessagesSelectFails(given, failure)
        \/ ReceiveMessagesTransportFails(given)
        \/ \E batch \in SqsBatches(sqs, EffectiveMaxMessages(given)) :
               \E done \in 0..Len(batch) : ReceiveMessagesLoopFails(given, batch, done)

\* deleteMessage whose transport delete throws after the index entry went
DeleteMessageTransportFailsAfterRemove(receiptHandle, withId, messageId, priority) ==
    /\ priorityQueue' = IF withId THEN removeMessageQueue(priorityQueue, messageId, priority)
                                  ELSE priorityQueue
    /\ messageMetadata' = IF withId THEN removeMessageMetadata(messageMetadata, messageId)
                                    ELSE messageMetadata
    /\ call' = [NoCall EXCEPT !.op = "deleteMessage", !.receiptHandle = receiptHandle,
                              !.withId = withId,
                              !.messageId = IF withId THEN messageId ELSE NoValue,
                              !.priority = IF withId THEN priority ELSE 0,
                              !.transportCalled = TRUE, !.error = "TransportError"]
    /\ UNCHANGED <<now, transportVars, latencyKeys, metricsVars, connected, concVars>>

\* deleteMessage whose transport delete throws (an unknown or expired receipt
\* handle, a transport outage): nothing after it runs
DeleteMessageTransportFails(receiptHandle, withId, messageId, priority) ==
    /\ call' = [NoCall EXCEPT !.op = "deleteMessage", !.receiptHandle = receiptHandle,
                              !.withId = withId,
                              !.messageId = IF withId THEN messageId ELSE NoValue,
                              !.priority = IF withId THEN priority ELSE 0,
                              !.transportCalled = TRUE, !.error = "TransportError"]
    /\ UNCHANGED <<now, transportVars, indexVars, metricsVars, connected, concVars>>

\* deleteMessage(receiptHandle, messageId, priority) whose removeMessage
\* throws after the transport delete
DeleteMessageRemoveFails(receiptHandle, messageId, priority, failure) ==
    LET removed == removeMessageFailing(messageMetadata, priorityQueue, messageId,
                                        priority, failure)
    IN /\ receiptHandle \in handles
       /\ FailureEnabled(failure)
       /\ sqs' = sqs \ {receiptHandle}
       /\ messageMetadata' = removed.md
       /\ priorityQueue' = removed.pq
       /\ call' = [NoCall EXCEPT !.op = "deleteMessage", !.receiptHandle = receiptHandle,
                                 !.messageId = messageId, !.priority = priority,
                                 !.withId = TRUE, !.transportCalled = TRUE,
                                 !.error = ErrorOf(failure), !.failure = failure]
       /\ UNCHANGED <<now, messageIdCounter, handles, latencyKeys, metricsVars, connected, concVars>>

\* deleteMessage(receiptHandle, messageId, priority) whose depth query throws
\* after removeMessage and endMessageProcessing
DeleteMessageDepthFails(receiptHandle, messageId, priority) ==
    /\ receiptHandle \in handles
    /\ connected
    /\ sqs' = sqs \ {receiptHandle}
    /\ priorityQueue' = removeMessageQueue(priorityQueue, messageId, priority)
    /\ messageMetadata' = removeMessageMetadata(messageMetadata, messageId)
    /\ processingLatencyByPriority' =
           endMessageProcessingLatency(processingLatencyByPriority,
                                       messageProcessingStartTimes, messageId, priority, now)
    /\ messageProcessingStartTimes' =
           endMessageProcessingStarts(messageProcessingStartTimes, messageId, priority)
    /\ call' = [NoCall EXCEPT !.op = "deleteMessage", !.receiptHandle = receiptHandle,
                              !.messageId = messageId, !.priority = priority,
                              !.withId = TRUE, !.transportCalled = TRUE,
                              !.error = "BackendError", !.failure = "zCard"]
    /\ UNCHANGED <<now, messageIdCounter, handles, latencyKeys, queueDepthByPriority,
                   connected, concVars>>

DeleteMessageFaulty ==
    \E receiptHandle \in Ids, messageId \in Ids, priority \in FaultPriorities :
        /\ messageId = receiptHandle
        /\ OwnClass(messageId, priority)
        /\ \/ DeleteMessageHandleOnly(receiptHandle)
           \/ DeleteMessageWithId(receiptHandle, messageId, priority)
           \/ \E withId \in BOOLEAN :
                  DeleteMessageTransportFails(receiptHandle, withId, messageId, priority)
           \/ \E failure \in RemoveMessageFailures :
                  DeleteMessageRemoveFails(receiptHandle, messageId, priority, failure)
           \/ DeleteMessageDepthFails(receiptHandle, messageId, priority)

\* purgeQueue whose transport purge throws: the metrics are not reset
PurgeQueueFails ==
    /\ call' = [NoCall EXCEPT !.op = "purgeQueue", !.transportCalled = TRUE,
                              !.error = "TransportError"]
    /\ UNCHANGED <<now, transportVars, indexVars, metricsVars, connected, concVars>>

\* changeMessageVisibility: a pass-through to the transport, which keeps the
\* lease; the call throws when the transport does
ChangeMessageVisibility ==
    \E receiptHandle \in Ids, error \in {"none", "TransportError"} :
        /\ error = "none" => receiptHandle \in handles
        /\ call' = [NoCall EXCEPT !.op = "changeMessageVisibility",
                                  !.receiptHandle = receiptHandle,
                                  !.transportCalled = TRUE, !.error = error]
        /\ UNCHANGED <<now, transportVars, indexVars, metricsVars, connected, concVars>>

\* the facade's getQueueDepthByPriority: RedisManager.getQueueDepthByPriority
GetQueueDepthByPriority ==
    /\ call' = IF connected
               THEN [NoCall EXCEPT !.op = "getQueueDepthByPriority",
                                   !.answer = getQueueDepthByPriority(priorityQueue)]
               ELSE [NoCall EXCEPT !.op = "getQueueDepthByPriority",
                                   !.error = "NotConnected", !.failure = "notConnected"]
    /\ UNCHANGED <<now, transportVars, indexVars, metricsVars, connected, concVars>>

\* the facade's getProcessingLatencyByPriority:
\* RedisManager.getProcessingLatencyByPriority
GetProcessingLatencyByPriority ==
    /\ call' = IF connected
               THEN [NoCall EXCEPT !.op = "getProcessingLatencyByPriority",
                                   !.answer = getProcessingLatencyByPriority(latencyKeys)]
               ELSE [NoCall EXCEPT !.op = "getProcessingLatencyByPriority",
                                   !.error = "NotConnected", !.failure = "notConnected"]
    /\ UNCHANGED <<now, transportVars, indexVars, metricsVars, connected, concVars>>

NextFault ==
    \/ Connect
    \/ ConnectFails
    \/ Disconnect
    \/ DisconnectFails
    \/ ClientError
    \/ SendMessageFaulty
    \/ ReceiveMessagesFaulty
    \/ DeleteMessageFaulty
    \/ PurgeQueue
    \/ PurgeQueueFails
    \/ ChangeMessageVisibility
    \/ GetQueueDepthByPriority
    \/ GetProcessingLatencyByPriority

SpecFault == InitFault /\ [][NextFault]_vars

\* ------------------------------------------------------------------------
\* Candidate selection racing with other clients: between the zCard of the
\* depth check and the zRange of each class, other clients' addMessage and
\* removeMessage calls change the class queues.  Each class is peeked at
\* most once, so one set of queue contents per class, unrelated to the
\* depths seen before, covers every interleaving.
\* ------------------------------------------------------------------------
RaceMaxMessages == {1, 2, MAX_MESSAGES}
\* class p owns the ids p * MaxRaceDepth + 1 .. (p + 1) * MaxRaceDepth
RaceClassIds(p) == (p * MaxRaceDepth + 1)..((p + 1) * MaxRaceDepth)
RaceIds == 1..(PRIORITY_LEVELS * MaxRaceDepth)
RaceClassOf(id) == CHOOSE p \in Priorities : id \in RaceClassIds(p)

\* the index holding exactly the messages `members`, all sent at time 1
RaceQueues(members) ==
    [p \in QueueKeys |->
        IF p \in Priorities
        THEN {[member |-> id, score |-> 1] : id \in members \cap RaceClassIds(p)}
        ELSE {}]

RaceMetadata(members) ==
    [id \in members |->
        [id |-> id, priority |-> RaceClassOf(id), sentAt |-> 1,
         firstReceivedAt |-> NoValue, lastReceivedAt |-> NoValue, receiveCount |-> 0]]

InitRace ==
    \E members \in SUBSET RaceIds :
        /\ now = 1
        /\ messageIdCounter = PRIORITY_LEVELS * MaxRaceDepth + 1
        /\ sqs = members
        /\ handles = {}
        /\ priorityQueue = RaceQueues(members)
        /\ messageMetadata = RaceMetadata(members)
        /\ latencyKeys = [p \in Priorities |-> 0]
        /\ queueDepthByPriority = initializeMetrics
        /\ processingLatencyByPriority = initializeMetrics
        /\ messageProcessingStartTimes = <<>>
        /\ connected = TRUE
        /\ call = NoCall
        /\ receivers = NoReceivers
        /\ leases = NoLeases

\* one getNextMessages call: the depth check sees the current queues, the
\* peeks see the queues of `atPeek`, which the other clients leave behind;
\* call.answer keeps the sizes the depth check saw
GetNextMessagesRacing ==
    \E maxMessages \in RaceMaxMessages, starvationThreshold \in {StarvationThreshold},
       atPeek \in SUBSET RaceIds :
        LET queueSizes == QueueSizes(priorityQueue)
        IN /\ priorityQueue' = RaceQueues(atPeek)
           /\ messageMetadata' = RaceMetadata(atPeek)
           /\ sqs' = atPeek
           /\ call' = [NoCall EXCEPT
                          !.op = "getNextMessages", !.maxMessages = maxMessages,
                          !.threshold = starvationThreshold,
                          !.starving = PreventStarvation(queueSizes, starvationThreshold),
                          !.answer = queueSizes,
                          !.candidates = SelectMessages(queueSizes, RaceQueues(atPeek),
                                                        maxMessages, starvationThreshold)]
           /\ UNCHANGED <<now, messageIdCounter, handles, latencyKeys, metricsVars,
                          connected, concVars>>

NextRace == GetNextMessagesRacing

SpecRace == InitRace /\ [][NextRace]_vars

\* ------------------------------------------------------------------------
\* The Ordering Index on its own: the RedisManager's methods called directly,
\* from its construction on, with the session up or down
\* ------------------------------------------------------------------------
\* addMessage(messageId, priority, metadata)
AddMessage ==
    \E messageId \in Ids, priority \in FaultPriorities :
        /\ IF connected
           THEN /\ messageMetadata' =
                       addMessageMetadata(messageMetadata, messageId, priority, now)
                /\ priorityQueue' = addMessageQueue(priorityQueue, messageId, priority, now)
                /\ call' = [NoCall EXCEPT !.op = "addMessage", !.messageId = messageId,
                                          !.priority = priority]
           ELSE /\ call' = [NoCall EXCEPT !.op = "addMessage", !.messageId = messageId,
                                          !.priority = priority, !.error = "NotConnected",
                                          !.failure = "notConnected"]
                /\ UNCHANGED <<priorityQueue, messageMetadata>>
        /\ UNCHANGED <<now, transportVars, latencyKeys, metricsVars, connected, concVars>>

\* getMessageMetadata(messageId): the record, or null
GetMessageMetadata ==
    \E messageId \in Ids :
        /\ call' = IF connected
                   THEN [NoCall EXCEPT !.op = "getMessageMetadata", !.messageId = messageId,
                                       !.result = IF messageId \in DOMAIN messageMetadata
                                                  THEN <<messageMetadata[messageId]>>
                                                  ELSE <<>>]
                   ELSE [NoCall EXCEPT !.op = "getMessageMetadata", !.messageId = messageId,
                                       !.error = "NotConnected", !.failure = "notConnected"]
        /\ UNCHANGED <<now, transportVars, indexVars, metricsVars, connected, concVars>>

\* markMessageAsReceived(messageId)
MarkMessageAsReceived ==
    \E messageId \in Ids :
        /\ messageId \in DOMAIN messageMetadata
               => messageMetadata[messageId].receiveCount < MaxReceives
        /\ IF connected
           THEN /\ messageMetadata' = markMessageAsReceived(messageMetadata, messageId, now)
                /\ call' = [NoCall EXCEPT !.op = "markMessageAsReceived",
                                          !.messageId = messageId]
           ELSE /\ call' = [NoCall EXCEPT !.op = "markMessageAsReceived",
                                          !.messageId = messageId, !.error = "NotConnected",
                                          !.failure = "notConnected"]
                /\ UNCHANGED messageMetadata
        /\ UNCHANGED <<now, transportVars, priorityQueue, latencyKeys, metricsVars, connected, concVars>>

\* removeMessage without its connection check
RemoveMessageUnchecked(messageId, priority) ==
    /\ priorityQueue' = removeMessageQueue(priorityQueue, messageId, priority)
    /\ messageMetadata' = removeMessageMetadata(messageMetadata, messageId)
    /\ call' = [NoCall EXCEPT !.op = "removeMessage", !.messageId = messageId,
                              !.priority = priority,
                              !.error = IF connected THEN "none" ELSE "NotConnected"]
    /\ UNCHANGED <<now, transportVars, latencyKeys, metricsVars, connected, concVars>>

\* removeMessage(messageId, priority)
RemoveMessage(messageId, priority) ==
    /\ IF connected
       THEN /\ priorityQueue' = removeMessageQueue(priorityQueue, messageId, priority)
            /\ messageMetadata' = removeMessageMetadata(messageMetadata, messageId)
            /\ call' = [NoCall EXCEPT !.op = "removeMessage", !.messageId = messageId,
                                      !.priority = priority]
       ELSE /\ call' = [NoCall EXCEPT !.op = "removeMessage", !.messageId = messageId,
                                      !.priority = priority, !.error = "NotConnected",
                                      !.failure = "notConnected"]
            /\ UNCHANGED <<priorityQueue, messageMetadata>>
    /\ UNCHANGED <<now, transportVars, latencyKeys, metricsVars, connected, concVars>>

\* RedisManager.getQueueDepthByPriority()
DepthSnapshot ==
    /\ call' = IF connected
               THEN [NoCall EXCEPT !.op = "depthSnapshot",
                                   !.answer = getQueueDepthByPriority(priorityQueue)]
               ELSE [NoCall EXCEPT !.op = "depthSnapshot", !.error = "NotConnected",
                                   !.failure = "notConnected"]
    /\ UNCHANGED <<now, transportVars, indexVars, metricsVars, connected, concVars>>

NextIndex ==
    \/ Tick
    \/ Connect
    \/ Disconnect
    \/ AddMessage
    \/ GetNextMessages
    \/ GetMessageMetadata
    \/ MarkMessageAsReceived
    \/ \E messageId \in Ids, priority \in FaultPriorities : RemoveMessage(messageId, priority)
    \/ DepthSnapshot

SpecIndex == InitFault /\ [][NextIndex]_vars

\* ------------------------------------------------------------------------
\* Two consumers calling receiveMessages concurrently: every await of the call
\* is a step of its own, the transport leases what it returns and a lease can
\* run out at any time
\* ------------------------------------------------------------------------
ConcMaxMessages == {0, 1}

\* the state after one sendMessage per id, in any classes, none received yet
InitConc ==
    \E classOf \in [Ids -> FaultPriorities] :
        /\ now = 1
        /\ messageIdCounter = MaxMsgs + 1
        /\ sqs = Ids
        /\ handles = {}
        /\ priorityQueue =
               [p \in QueueKeys |->
                   {[member |-> id, score |-> 1] : id \in {k \in Ids : classOf[k] = p}}]
        /\ messageMetadata =
               [id \in Ids |->
                   [id |-> id, priority |-> classOf[id], sentAt |-> 1,
                    firstReceivedAt |-> NoValue, lastReceivedAt |-> NoValue,
                    receiveCount |-> 0]]
        /\ latencyKeys = [p \in Priorities |-> 0]
        /\ queueDepthByPriority =
               [p \in Priorities |-> Cardinality({k \in Ids : classOf[k] = p})]
        /\ processingLatencyByPriority = initializeMetrics
        /\ messageProcessingStartTimes = <<>>
        /\ connected = TRUE
        /\ call = NoCall
        /\ receivers = NoReceivers
        /\ leases = NoLeases

\* the transport returns only messages that are visible
Visible == {id \in sqs : leases[id] = 0}

\* the loop moves to its next message, or leaves for the depth refresh
Advance(r) ==
    [r EXCEPT !.i = @ + 1, !.metadata = <<>>, !.read = <<>>,
              !.pc = IF r.i + 1 > Len(r.batch) THEN "depth" ELSE "lookup"]

\* await redisManager.getNextMessages(maxMessages, threshold)
ReceiveSelect(c, given) ==
    LET maxMessages == EffectiveMaxMessages(given)
        messageIds == getNextMessages(priorityQueue, maxMessages, StarvationThreshold)
    IN /\ receivers[c].pc = "idle"
       /\ connected
       /\ receivers' =
              [receivers EXCEPT ![c] =
                  [Idle EXCEPT !.pc = IF messageIds = <<>> THEN "done" ELSE "receive",
                               !.maxMessages = maxMessages,
                               !.candidates = messageIds]]
       /\ UNCHANGED <<now, transportVars, indexVars, metricsVars, connected, call, leases>>

\* a call that loops over its candidates, not over the transport's response
ReceiveFetchLoopsOverCandidates(c) ==
    \E batch \in SqsBatches(Visible, receivers[c].maxMessages) :
        /\ receivers[c].pc = "receive"
        /\ \A id \in Range(batch) \cup Range(receivers[c].candidates) :
               id \in DOMAIN messageMetadata
                   => messageMetadata[id].receiveCount < MaxReceives
        /\ handles' = handles \cup Range(batch)
        /\ leases' = [id \in Ids |-> IF id \in Range(batch) THEN c ELSE leases[id]]
        /\ receivers' =
               [receivers EXCEPT ![c] =
                   [@ EXCEPT !.returned = Range(batch), !.batch = receivers[c].candidates,
                             !.i = 1, !.pc = "lookup"]]
        /\ UNCHANGED <<now, messageIdCounter, sqs, indexVars, metricsVars, connected, call>>

\* await sqsManager.receiveMessages(...): the transport leases what it returns
ReceiveFetch(c) ==
    \E batch \in SqsBatches(Visible, receivers[c].maxMessages) :
        /\ receivers[c].pc = "receive"
        /\ \A id \in Range(batch) :
               id \in DOMAIN messageMetadata
                   => messageMetadata[id].receiveCount < MaxReceives
        /\ handles' = handles \cup Range(batch)
        /\ leases' = [id \in Ids |-> IF id \in Range(batch) THEN c ELSE leases[id]]
        /\ receivers' =
               [receivers EXCEPT ![c] =
                   [@ EXCEPT !.returned = Range(batch), !.batch = batch, !.i = 1,
                             !.pc = IF batch = <<>> THEN "done" ELSE "lookup"]]
        /\ UNCHANGED <<now, messageIdCounter, sqs, indexVars, metricsVars, connected, call>>

\* await redisManager.getMessageMetadata(sqsMessage.MessageId)
ReceiveLookup(c) ==
    LET r == receivers[c]
        messageId == r.batch[r.i]
    IN /\ r.pc = "lookup"
       /\ receivers' =
              [receivers EXCEPT ![c] =
                  IF messageId \in DOMAIN messageMetadata
                  THEN [r EXCEPT !.metadata = <<messageMetadata[messageId]>>, !.pc = "mark"]
                  ELSE Advance(r)]
       /\ UNCHANGED <<now, transportVars, indexVars, metricsVars, connected, call, leases>>

\* await redisManager.markMessageAsReceived(id), then startMessageProcessing
\* and the push of the message built from the record looked up before
ReceiveMark(c) ==
    LET r == receivers[c]
        messageId == r.batch[r.i]
    IN /\ r.pc = "mark"
       /\ messageMetadata' = markMessageAsReceived(messageMetadata, messageId, now)
       /\ messageProcessingStartTimes' =
              startMessageProcessing(messageProcessingStartTimes, messageId, now)
       /\ receivers' =
              [receivers EXCEPT ![c] =
                  Advance([r EXCEPT !.prioritized =
                                        Append(@, PriorityMessage(messageId, r.metadata[1]))])]
       /\ UNCHANGED <<now, transportVars, priorityQueue, latencyKeys, queueDepthByPriority,
                      processingLatencyByPriority, connected, call, leases>>

\* await redisManager.getQueueDepthByPriority(), then updateQueueDepth
ReceiveDepth(c) ==
    /\ receivers[c].pc = "depth"
    /\ queueDepthByPriority' =
           RefreshQueueDepth(queueDepthByPriority, getQueueDepthByPriority(priorityQueue))
    /\ receivers' = [receivers EXCEPT ![c] = [@ EXCEPT !.pc = "done"]]
    /\ UNCHANGED <<now, transportVars, indexVars, processingLatencyByPriority,
                   messageProcessingStartTimes, connected, call, leases>>

\* the call returns prioritizedMessages; the consumer may call again
ReceiveReturn(c) ==
    /\ receivers[c].pc = "done"
    /\ receivers' = [receivers EXCEPT ![c] = Idle]
    /\ UNCHANGED <<now, transportVars, indexVars, metricsVars, connected, call, leases>>

\* the visibility timeout of a leased message runs out
LeaseExpires(id) ==
    /\ leases[id] /= 0
    /\ leases' = [leases EXCEPT ![id] = 0]
    /\ UNCHANGED <<now, transportVars, indexVars, metricsVars, connected, call, receivers>>

NextConc ==
    \/ \E c \in Consumers, given \in ConcMaxMessages : ReceiveSelect(c, given)
    \/ \E c \in Consumers : ReceiveFetch(c)
    \/ \E c \in Consumers : ReceiveLookup(c)
    \/ \E c \in Consumers : ReceiveMark(c)
    \/ \E c \in Consumers : ReceiveDepth(c)
    \/ \E c \in Consumers : ReceiveReturn(c)
    \/ \E id \in Ids : LeaseExpires(id)

SpecConc == InitConc /\ [][NextConc]_vars

\* ------------------------------------------------------------------------
\* Concurrent receiveMessages calls with markMessageAsReceived taken apart
\* into its two commands (get, then set), next to consumers that acknowledge
\* messages their calls returned
\* ------------------------------------------------------------------------
MarkMaxMessages == {0}

\* the state after one sendMessage(class 0), the message not received yet
InitMark ==
    /\ now = 1
    /\ messageIdCounter = 2
    /\ sqs = {1}
    /\ handles = {}
    /\ priorityQueue =
           [p \in QueueKeys |-> IF p = 0 THEN {[member |-> 1, score |-> 1]} ELSE {}]
    /\ messageMetadata =
           [id \in {1} |->
               [id |-> id, priority |-> 0, sentAt |-> 1,
                firstReceivedAt |-> NoValue, lastReceivedAt |-> NoValue,
                receiveCount |-> 0]]
    /\ latencyKeys = [p \in Priorities |-> 0]
    /\ queueDepthByPriority = [p \in Priorities |-> IF p = 0 THEN 1 ELSE 0]
    /\ processingLatencyByPriority = initializeMetrics
    /\ messageProcessingStartTimes = <<>>
    /\ connected = TRUE
    /\ call = NoCall
    /\ receivers = NoReceivers
    /\ leases = NoLeases

\* markMessageAsReceived, first command: await this.getMessageMetadata(id)
ReceiveMarkGet(c) ==
    LET r == receivers[c]
        messageId == r.batch[r.i]
    IN /\ r.pc = "mark"
       /\ receivers' =
              [receivers EXCEPT ![c] =
                  [r EXCEPT !.pc = "markSet",
                            !.read = IF messageId \in DOMAIN messageMetadata
                                     THEN <<messageMetadata[messageId]>>
                                     ELSE <<>>]]
       /\ UNCHANGED <<now, transportVars, indexVars, metricsVars, connected, call, leases>>

\* the record markMessageAsReceived writes from the one it read
UpdatedMetadata(metadata, t) ==
    [metadata EXCEPT !.lastReceivedAt = t,
                     !.firstReceivedAt = IF @ = NoValue THEN t ELSE @,
                     !.receiveCount = @ + 1]

\* markMessageAsReceived, second command: client.set of the updated record
\* (skipped when the get found none), then startMessageProcessing and the push
ReceiveMarkSet(c) ==
    LET r == receivers[c]
        messageId == r.batch[r.i]
    IN /\ r.pc = "markSet"
       /\ messageMetadata' =
              IF r.read = <<>>
              THEN messageMetadata
              ELSE [k \in (DOMAIN messageMetadata) \cup {messageId} |->
                       IF k = messageId THEN UpdatedMetadata(r.read[1], now)
                       ELSE messageMetadata[k]]
       /\ messageProcessingStartTimes' =
              startMessageProcessing(messageProcessingStartTimes, messageId, now)
       /\ receivers' =
              [receivers EXCEPT ![c] =
                  Advance([r EXCEPT !.prioritized =
                                        Append(@, PriorityMessage(messageId, r.metadata[1]))])]
       /\ UNCHANGED <<now, transportVars, priorityQueue, latencyKeys, queueDepthByPriority,
                      processingLatencyByPriority, connected, call, leases>>

\* the consumer acknowledges a message its call has just returned:
\* deleteMessage(receiptHandle, id, priority) with the values of that message
AcknowledgeReceived(c) ==
    \E k \in 1..Len(receivers[c].prioritized) :
        /\ receivers[c].pc = "done"
        /\ DeleteMessageWithId(receivers[c].prioritized[k].id,
                               receivers[c].prioritized[k].id,
                               receivers[c].prioritized[k].priority)

NextMark ==
    \/ \E c \in Consumers, given \in MarkMaxMessages : ReceiveSelect(c, given)
    \/ \E c \in Consumers : ReceiveFetch(c)
    \/ \E c \in Consumers : ReceiveLookup(c)
    \/ \E c \in Consumers : ReceiveMarkGet(c)
    \/ \E c \in Consumers : ReceiveMarkSet(c)
    \/ \E c \in Consumers : ReceiveDepth(c)
    \/ \E c \in Consumers : ReceiveReturn(c)
    \/ \E id \in Ids : LeaseExpires(id)
    \/ \E c \in Consumers : AcknowledgeReceived(c)

SpecMark == InitMark /\ [][NextMark]_vars

\* ------------------------------------------------------------------------
\* Properties
\* ------------------------------------------------------------------------
TypeOK ==
    /\ now \in Times
    /\ sqs \subseteq Ids
    /\ DOMAIN messageMetadata \subseteq Ids

ResultIds(c) == [i \in 1..Len(c.result) |-> c.result[i].id]
Depths == getQueueDepthByPriority(priorityQueue)

\* C1: below the starvation threshold, the list receiveMessages returns has
\* its messages in ascending class order (all class 0 before any class 1,
\* all class 1 before any class 2), whatever order the transport used.
C1_PriorityOrder ==
    (call.op = "receiveMessages" /\ ~call.starving)
        => \A i, j \in 1..Len(call.result) :
               i < j => call.result[i].priority <= call.result[j].priority

\* C2: messages of one class appear in a receiveMessages result in the order
\* they were sent (the transport hands out ids in send order, so in id order).
C2_FifoWithinClass ==
    call.op = "receiveMessages"
        => \A i, j \in 1..Len(call.result) :
               (i < j /\ call.result[i].priority = call.result[j].priority)
                   => call.result[i].id < call.result[j].id

\* C3: when some class 1..N-1 holds more than the threshold, a request for 10
\* candidates yields at least one id of every non-empty class.
C3_EveryNonEmptyClassServed ==
    (call.op = "getNextMessages" /\ call.starving /\ call.maxMessages = MAX_MESSAGES)
        => \A p \in Priorities :
               priorityQueue[p] /= {}
                   => \E i \in 1..Len(call.candidates) :
                          \E e \in priorityQueue[p] : e.member = call.candidates[i]

\* C4: every admitted message, of any class, is eventually selected as a
\* candidate and eventually surfaced by a receive, also while producers keep
\* sending.
Admitted(id) == InSomeQueue(id) /\ id \in DOMAIN messageMetadata
Selected(id) == call.op = "receiveMessages" /\ id \in Range(call.candidates)
Served(id) == call.op = "receiveMessages" /\ id \in Range(ResultIds(call))

C4_EventualService ==
    \A id \in Ids : /\ Admitted(id) ~> Selected(id)
                    /\ Admitted(id) ~> Served(id)

\* C5: with sends and own-id, own-class deletes only, the class depths add up
\* to the number of messages sent and not yet deleted (the messages the
\* transport still stores).
C5_DepthConservation ==
    SumOver(Depths, Priorities) = Cardinality(sqs)

C5_Witness ==
    /\ call.op = "deleteMessage"
    /\ messageIdCounter = 3
    /\ Cardinality(sqs) = 1
    /\ SumOver(Depths, Priorities) = 1

\* C6: a step that surfaces an id raises its stored receiveCount by exactly
\* 1, and no step lowers the receiveCount of a record that stays.
Delivered(c, id) ==
    c.op = "receiveMessages" /\ \E i \in 1..Len(c.result) : c.result[i].id = id

C7_PurgeResets ==
    call.op = "purgeQueue"
        => \A p \in Priorities :
               /\ getQueueDepthByPriority(priorityQueue)[p] = 0
               /\ getProcessingLatencyByPriority(latencyKeys)[p] = 0

\* C8: sendMessage with a priority outside 0..N-1 fails with the
\* invalid-priority error, makes no transport call and changes neither the
\* transport, nor the index, nor the metrics.
C8_InvalidPriorityRejected ==
    [][(call' /= call /\ call'.op = "sendMessage" /\ call'.priority \notin Priorities)
          => /\ call'.error = "InvalidPriority"
             /\ ~call'.transportCalled
             /\ UNCHANGED <<transportVars, indexVars, metricsVars>>]_vars

C8_Witness ==
    /\ call.op = "sendMessage"
    /\ call.priority = 5
    /\ call.error = "InvalidPriority"
    /\ sqs /= {}

\* C9: the ids receiveMessages surfaces are the candidates of that call that
\* the transport returned (candidates intersected with the fetched batch).
C9_ResultIsCandidateIntersection ==
    call.op = "receiveMessages"
        => Range(ResultIds(call)) = Range(call.candidates) \cap Range(call.batch)

\* C10: receiveMessages surfaces exactly the fetched messages that have a
\* metadata record when looked up, in the transport's order; a fetched
\* message without a record is not marked received (no record appears) and
\* gets no processing start time.
C10_SurfacedIffRecord ==
    [][(call' /= call /\ call'.op = "receiveMessages")
          => LET HasRecord(id) == id \in DOMAIN messageMetadata
             IN /\ ResultIds(call') = SelectSeq(call'.batch, HasRecord)
                /\ \A id \in Range(call'.batch) \ DOMAIN messageMetadata :
                       /\ id \notin DOMAIN messageMetadata'
                       /\ (id \in DOMAIN messageProcessingStartTimes'
                              <=> id \in DOMAIN messageProcessingStartTimes)
                       /\ id \in DOMAIN messageProcessingStartTimes
                              => messageProcessingStartTimes'[id]
                                     = messageProcessingStartTimes[id]]_vars

\* the transport returned a message that has no record while the index
\* offered a candidate: the message is dropped
C10_Witness ==
    /\ call.op = "receiveMessages"
    /\ call.candidates /= <<>>
    /\ Len(call.batch) = 1
    /\ call.batch[1] \notin DOMAIN messageMetadata
    /\ call.batch[1] \notin DOMAIN messageProcessingStartTimes
    /\ call.result = <<>>

\* C11: when every class queue is empty the Dispatch Engine has no candidate
\* and receiveMessages returns an empty list without error, without a
\* transport receive and without changing the index (or the metrics).
AllQueuesEmpty == \A p \in QueueKeys : priorityQueue[p] = {}

C11_EmptyFastPath ==
    [][(call' /= call /\ call'.op = "receiveMessages" /\ AllQueuesEmpty)
          => /\ getNextMessages(priorityQueue, EffectiveMaxMessages(call'.maxMessages),
                                StarvationThreshold) = <<>>
             /\ call'.candidates = <<>>
             /\ call'.result = <<>>
             /\ call'.error = "none"
             /\ ~call'.transportCalled
             /\ UNCHANGED <<transportVars, indexVars, metricsVars>>]_vars

\* the fast path taken while the transport still stores a message
C11_Witness ==
    /\ call.op = "receiveMessages"
    /\ AllQueuesEmpty
    /\ sqs /= {}
    /\ ~call.transportCalled
    /\ call.result = <<>>

\* C13: deleteMessage(receiptHandle) without id and priority deletes from the
\* transport only: class queues, metadata, latency keys and metrics stay as
\* they are, so the depths and the candidates of every later selection are
\* those from before the call, the deleted message's id included.
C13_HandleOnlyDeleteLeavesIndex ==
    [][(call' /= call /\ call'.op = "deleteMessage" /\ ~call'.withId)
          => /\ UNCHANGED <<indexVars, metricsVars>>
             /\ call'.error = "none" => sqs' = sqs \ {call'.receiptHandle}
             /\ getQueueDepthByPriority(priorityQueue') = getQueueDepthByPriority(priorityQueue)
             /\ \A given \in MaxMessagesInputs :
                    getNextMessages(priorityQueue', EffectiveMaxMessages(given),
                                    StarvationThreshold)
                        = getNextMessages(priorityQueue, EffectiveMaxMessages(given),
                                          StarvationThreshold)]_vars

\* a ghost: the transport no longer stores the message, its id still sits in
\* its class queue, counts in the depth and is a candidate
C13_Witness ==
    /\ call.op = "deleteMessage"
    /\ ~call.withId
    /\ call.error = "none"
    /\ call.receiptHandle \notin sqs
    /\ call.receiptHandle \in DOMAIN messageMetadata
    /\ \E e \in priorityQueue[messageMetadata[call.receiptHandle].priority] :
           e.member = call.receiptHandle
    /\ SumOver(Depths, Priorities) > Cardinality(sqs)
    /\ call.receiptHandle \in Range(getNextMessages(priorityQueue, MAX_MESSAGES,
                                                     StarvationThreshold))

\* C12: deleteMessage deletes from the transport before it touches the index.
\* When the transport delete throws, the call fails with that error and the
\* transport, class queues, metadata and metrics are unchanged; in every
\* other case the transport delete has happened, also when the index throws
\* afterwards; when the call given an id and its class returns, the id is not
\* in that class queue, has no metadata record and no processing start time.
C12_TransportBeforeIndex ==
    [][(call' /= call /\ call'.op = "deleteMessage")
          => /\ call'.error = "TransportError"
                    => UNCHANGED <<transportVars, indexVars, metricsVars>>
             /\ call'.error /= "TransportError"
                    => sqs' = sqs \ {call'.receiptHandle}
             /\ (call'.withId /\ call'.error = "none" /\ call'.priority \in Priorities)
                    => /\ \A e \in priorityQueue'[call'.priority] :
                              e.member /= call'.messageId
                       /\ call'.messageId \notin DOMAIN messageMetadata'
                       /\ call'.messageId \notin DOMAIN messageProcessingStartTimes']_vars

\* a delete by id that failed in the transport: the received message is still
\* stored, queued, recorded and timed
C12_Witness ==
    /\ call.op = "deleteMessage"
    /\ call.withId
    /\ call.error = "TransportError"
    /\ call.messageId \in sqs
    /\ call.messageId \in DOMAIN messageMetadata
    /\ call.messageId \in DOMAIN messageProcessingStartTimes
    /\ \E e \in priorityQueue[call.priority] : e.member = call.messageId

\* C14: when the transport submission of sendMessage throws, the call fails
\* with the transport's error and neither the transport, nor the class
\* queues, nor the metadata, nor the depths change.
C14_TransportFailureNoOrphan ==
    [][(call' /= call /\ call'.op = "sendMessage" /\ call'.error = "TransportError")
          => /\ UNCHANGED <<transportVars, indexVars, metricsVars>>
             /\ getQueueDepthByPriority(priorityQueue')
                    = getQueueDepthByPriority(priorityQueue)]_vars

\* a failed submission on a connected service that already holds a message
C14_Witness ==
    /\ call.op = "sendMessage"
    /\ call.error = "TransportError"
    /\ connected
    /\ sqs /= {}
    /\ DOMAIN messageMetadata = sqs
    /\ SumOver(Depths, Priorities) = Cardinality(sqs)

\* C15: when addMessage throws after the transport stored the message,
\* sendMessage fails with the index's error, the transport keeps the message,
\* no class queue holds its id and no selection returns it.
C15_RegistrationFailureInvisible ==
    [][(call' /= call /\ call'.op = "sendMessage" /\ call'.failure \in AddMessageFailures)
          => /\ call'.error \in {"NotConnected", "BackendError"}
             /\ call'.messageId \in sqs'
             /\ call'.messageId \notin sqs
             /\ \A p \in QueueKeys : \A e \in priorityQueue'[p] :
                    e.member /= call'.messageId
             /\ \A given \in MaxMessagesInputs :
                    call'.messageId \notin
                        Range(getNextMessages(priorityQueue', EffectiveMaxMessages(given),
                                              StarvationThreshold))]_vars

\* the zAdd threw after the set: a stored message with a record and no queue
\* entry
C15_Witness ==
    /\ call.op = "sendMessage"
    /\ call.failure = "zAdd"
    /\ call.error = "BackendError"
    /\ call.messageId \in sqs
    /\ call.messageId \in DOMAIN messageMetadata
    /\ ~InSomeQueue(call.messageId)

\* C17: every facade operation attempted while the index session is not
\* established (and whose transport call, if any, did not fail) fails with
\* the not-connected error.
FacadeOperations ==
    {"sendMessage", "receiveMessages", "deleteMessage", "changeMessageVisibility",
     "getQueueDepthByPriority", "getProcessingLatencyByPriority", "purgeQueue"}

C17_FacadeNotConnected ==
    [][(call' /= call /\ ~connected /\ call'.op \in FacadeOperations
            /\ call'.error /= "TransportError")
          => call'.error = "NotConnected"]_vars

\* C18: while the index is disconnected, sendMessage and receiveMessages
\* still complete (unless the transport itself fails).
C18_DegradesToTransport ==
    [][(call' /= call /\ ~connected /\ call'.op \in {"sendMessage", "receiveMessages"}
            /\ call'.error /= "TransportError")
          => call'.error = "none"]_vars

\* C16: addMessage, getNextMessages, getMessageMetadata,
\* markMessageAsReceived, removeMessage and getQueueDepthByPriority, called
\* while the session is not established, fail with the not-connected error
\* and change neither class queues, nor records, nor latency keys.
IndexOperations ==
    {"addMessage", "getNextMessages", "getMessageMetadata", "markMessageAsReceived",
     "removeMessage", "depthSnapshot"}

C16_IndexNotConnected ==
    [][(call' /= call /\ ~connected /\ call'.op \in IndexOperations)
          => /\ call'.error = "NotConnected"
             /\ call'.candidates = <<>>
             /\ call'.result = <<>>
             /\ UNCHANGED indexVars]_vars

\* a removeMessage refused for a registered message while the session is down
C16_Witness ==
    /\ call.op = "removeMessage"
    /\ call.error = "NotConnected"
    /\ ~connected
    /\ call.messageId \in DOMAIN messageMetadata
    /\ \E e \in priorityQueue[call.priority] : e.member = call.messageId

\* C19: when a surfaced message of class c is deleted with its id and class a
\* positive time after the receive, the facade's
\* getProcessingLatencyByPriority reports a latency greater than 0 for c.
C19_LatencyReflectsProcessing ==
    [][(/\ call' /= call
        /\ call'.op = "deleteMessage"
        /\ call'.withId
        /\ call'.error = "none"
        /\ call'.messageId \in DOMAIN messageMetadata
        /\ call'.messageId \in DOMAIN messageProcessingStartTimes)
          => ((/\ messageMetadata[call'.messageId].priority = call'.priority
               /\ now > messageProcessingStartTimes[call'.messageId])
                => getProcessingLatencyByPriority(latencyKeys')[call'.priority] > 0)]_vars

\* C20: in normal and in starvation-prevention mode, whatever the other
\* clients do to the class queues between the depth check and the peeks,
\* getNextMessages(maxMessages) returns at most maxMessages ids and at most
\* as many ids as the depth check counted.
C20_CandidatesBounded ==
    call.op = "getNextMessages"
        => /\ Len(call.candidates) <= call.maxMessages
           /\ Len(call.candidates) <= SumOver(call.answer, Priorities)

\* starvation-prevention mode, sends raced in after the depth check, and the
\* whole observed backlog handed out below maxMessages
C20_Witness ==
    /\ call.op = "getNextMessages"
    /\ call.starving
    /\ SumOver(call.answer, Priorities) < SumOver(Depths, Priorities)
    /\ Len(call.candidates) = SumOver(call.answer, Priorities)
    /\ Len(call.candidates) < call.maxMessages


ClassesOf(id) == {p \in QueueKeys : \E e \in priorityQueue[p] : e.member = id}

C22_OneClass ==
    \A id \in Ids :
        /\ Cardinality(ClassesOf(id)) <= 1
        /\ id \in DOMAIN messageMetadata
               => \A p \in ClassesOf(id) : messageMetadata[id].priority = p

C22_PriorityKept ==
    \A id \in (DOMAIN messageMetadata) \cap (DOMAIN messageMetadata') :
        messageMetadata'[id].priority = messageMetadata[id].priority

C22_SingleClassFixedPriority == [](C22_OneClass) /\ [][C22_PriorityKept]_vars

C22_Witness ==
    /\ call.op = "receiveMessages"
    /\ \E a \in DOMAIN messageMetadata, b \in DOMAIN messageMetadata :
           /\ ClassesOf(a) = {0}
           /\ ClassesOf(b) = {2}
           /\ messageMetadata[a].receiveCount > 0
           /\ messageMetadata[b].receiveCount > 0


\* the candidates of the last selection that belong to class c, and the
\* oldest n ids of class c
CandidatesOfClass(c) ==
    Cardinality({i \in 1..Len(call.candidates) :
                    \E e \in priorityQueue[c] : e.member = call.candidates[i]})

Oldest(c, n) == SubSeq(SortedMembers(priorityQueue[c]), 1, n)

\* C24: getNextMessages enters starvation-prevention mode exactly when some
\* class 1..N-1 is deeper than the threshold; a depth equal to the threshold
\* or class 0 alone above it keeps normal mode (class 0 is served in full
\* first), and in starvation mode a non-empty class 0 still gets a share.
C24_StarvationTrigger ==
    (call.op = "getNextMessages" /\ call.error = "none")
        => /\ call.starving
                  <=> \E c \in Priorities \ {0} : Depths[c] > call.threshold
           /\ (\A c \in Priorities \ {0} : Depths[c] <= call.threshold)
                  => /\ CandidatesOfClass(0) = Min(call.maxMessages, Depths[0])
                     /\ Len(call.candidates)
                            = Min(call.maxMessages, SumOver(Depths, Priorities))
           /\ (call.starving /\ Depths[0] > 0) => CandidatesOfClass(0) >= 1

C24_Witness ==
    /\ call.op = "getNextMessages"
    /\ ~call.starving
    /\ Depths[0] > call.threshold
    /\ Depths[1] = call.threshold
    /\ Depths[2] > 0
    /\ call.maxMessages = 3
    /\ CandidatesOfClass(0) = 3

\* C25: in starvation-prevention mode, with total the sum of the depths and
\* target = min(maxMessages, total), the candidates are, class after class in
\* ascending order, the oldest
\* min(max(1, floor(target * depth / total)), depth, target - allocated so far)
\* ids of every non-empty class, and nothing once the target is reached.
C25_Total == SumOver(Depths, Priorities)
C25_Target == Min(call.maxMessages, C25_Total)

C25_Share(c, allocatedSoFar) ==
    IF Depths[c] = 0 \/ allocatedSoFar >= C25_Target
    THEN 0
    ELSE Min(Min(Max(1, (C25_Target * Depths[c]) \div C25_Total), Depths[c]),
             C25_Target - allocatedSoFar)

RECURSIVE C25_Expected(_, _)
C25_Expected(c, allocatedSoFar) ==
    IF c >= PRIORITY_LEVELS THEN <<>>
    ELSE Oldest(c, C25_Share(c, allocatedSoFar))
             \o C25_Expected(c + 1, allocatedSoFar + C25_Share(c, allocatedSoFar))

C25_StarvationAllocation ==
    (call.op = "getNextMessages" /\ call.error = "none" /\ call.starving)
        => call.candidates = C25_Expected(0, 0)

\* C26: in normal mode the candidates are the first maxMessages ids of the
\* class queues laid end to end in ascending class order, each class oldest
\* first; depths 3/5/7 with maxMessages 15 and threshold 100 give the 3
\* class-0 ids, then the 5 class-1 ids, then the 7 class-2 ids.
RECURSIVE C26_EndToEnd(_)
C26_EndToEnd(c) ==
    IF c >= PRIORITY_LEVELS THEN <<>>
    ELSE SortedMembers(priorityQueue[c]) \o C26_EndToEnd(c + 1)

C26_NormalMode ==
    (call.op = "getNextMessages" /\ call.error = "none" /\ ~call.starving)
        => /\ call.candidates
                  = SubSeq(C26_EndToEnd(0), 1, Min(call.maxMessages, Len(C26_EndToEnd(0))))
           /\ \A c \in Priorities :
                  CandidatesOfClass(c)
                      = Min(call.maxMessages
                                - SumOver([q \in Priorities |-> CandidatesOfClass(q)],
                                          {q \in Priorities : q < c}),
                            Depths[c])

C26_Witness ==
    /\ call.op = "getNextMessages"
    /\ call.maxMessages = 15
    /\ call.threshold = STARVATION_PREVENTION_THRESHOLD
    /\ Depths = (0 :> 3) @@ (1 :> 5) @@ (2 :> 7)
    /\ call.candidates = [i \in 1..15 |-> i]
    /\ CandidatesOfClass(0) = 3
    /\ CandidatesOfClass(1) = 5
    /\ CandidatesOfClass(2) = 7


\* C27: selection is non-destructive. A getNextMessages step changes no class
\* queue and no metadata record, the selection repeated in the state it leaves
\* returns the same list, and an id leaves a class queue only by removeMessage
\* (so it stays selectable, received or not, until then).
C27_Repeatable ==
    (call.op = "getNextMessages" /\ call.error = "none")
        => call.candidates
               = getNextMessages(priorityQueue, call.maxMessages, call.threshold)

C27_Frame ==
    /\ call'.op = "getNextMessages"
           => UNCHANGED <<priorityQueue, messageMetadata>>
    /\ (\E id \in Ids : InSomeQueue(id) /\ ~InSomeQueue(id)')
           => call'.op = "removeMessage"

C27_SelectionNonDestructive == [](C27_Repeatable) /\ [][C27_Frame]_vars

C27_Witness ==
    /\ call.op = "getNextMessages"
    /\ Len(call.candidates) = 2
    /\ \A i \in 1..2 : InSomeQueue(call.candidates[i])
    /\ \E i \in 1..2 :
           /\ call.candidates[i] \in DOMAIN messageMetadata
           /\ messageMetadata[call.candidates[i]].receiveCount > 0


\* C28: a class queue is in registration order: an id registered in a class
\* is placed behind every id the class already holds, also when it carries
\* the same timestamp as some of them.
C28_RegistrationOrder ==
    [][\A id \in Ids, p \in Priorities :
          (~InSomeQueue(id) /\ \E e \in priorityQueue'[p] : e.member = id)
              => SortedMembers(priorityQueue'[p])
                     = Append(SortedMembers(priorityQueue[p]), id)]_vars


\* C29: markMessageAsReceived on an id with a record adds 1 to receiveCount,
\* sets lastReceivedAt to now, sets firstReceivedAt only when it was unset and
\* keeps id, priority and sentAt; on an id without a record it changes nothing
\* and raises no error. A set firstReceivedAt is not changed by any later step
\* that keeps the registration.
C29_MarkStep(id) ==
    /\ call'.op = "markMessageAsReceived"
    /\ call'.messageId = id
    /\ call'.failure = "none"
    /\ now' = now

C29_Marked(id) ==
    [id |-> messageMetadata[id].id,
     priority |-> messageMetadata[id].priority,
     sentAt |-> messageMetadata[id].sentAt,
     firstReceivedAt |-> IF messageMetadata[id].firstReceivedAt = NoValue
                         THEN now
                         ELSE messageMetadata[id].firstReceivedAt,
     lastReceivedAt |-> now,
     receiveCount |-> messageMetadata[id].receiveCount + 1]

C29_MarkReceived ==
    [][\A id \in Ids :
          /\ C29_MarkStep(id)
                 => /\ call'.error = "none"
                    /\ priorityQueue' = priorityQueue
                    /\ DOMAIN messageMetadata' = DOMAIN messageMetadata
                    /\ \A k \in DOMAIN messageMetadata :
                           messageMetadata'[k] = IF k = id THEN C29_Marked(id)
                                                 ELSE messageMetadata[k]
          /\ (/\ id \in (DOMAIN messageMetadata) \cap (DOMAIN messageMetadata')
              /\ messageMetadata[id].firstReceivedAt /= NoValue
              /\ ~(call'.op = "addMessage" /\ call'.messageId = id))
                 => messageMetadata'[id].firstReceivedAt
                        = messageMetadata[id].firstReceivedAt]_vars

C29_Witness ==
    /\ call.op = "markMessageAsReceived"
    /\ call.error = "none"
    /\ call.messageId \in DOMAIN messageMetadata
    /\ messageMetadata[call.messageId].firstReceivedAt = 1
    /\ messageMetadata[call.messageId].lastReceivedAt = 2
    /\ messageMetadata[call.messageId].receiveCount = 2
    /\ \E other \in Ids : other \notin DOMAIN messageMetadata


\* C30: removeMessage issues zRem before del. Whatever command of it throws,
\* the error reaches the caller and no class-queue member is left without its
\* metadata record; when del throws, the id is out of its class queue and its
\* record stays behind unchanged.
C30_MembersHaveRecords ==
    \A p \in QueueKeys : \A e \in priorityQueue[p] : e.member \in DOMAIN messageMetadata

C30_RemoveFails(id) ==
    /\ call' /= call
    /\ call'.op = "deleteMessage"
    /\ call'.withId
    /\ call'.messageId = id
    /\ call'.failure \in RemoveMessageFailures

C30_FailingStep ==
    \A id \in Ids :
        C30_RemoveFails(id)
            => /\ call'.error /= "none"
               /\ messageMetadata' = messageMetadata
               /\ call'.failure = "del"
                      => priorityQueue'
                             = [priorityQueue EXCEPT ![call'.priority] = zRem(@, id)]
               /\ call'.failure /= "del" => priorityQueue' = priorityQueue

C30_RemoveOrder == [](C30_MembersHaveRecords) /\ [][C30_FailingStep]_vars

C30_Witness ==
    /\ call.op = "deleteMessage"
    /\ call.failure = "del"
    /\ call.error /= "none"
    /\ call.messageId \in DOMAIN messageMetadata
    /\ ~InSomeQueue(call.messageId)
    /\ \E other \in DOMAIN messageMetadata : InSomeQueue(other)


\* the ids a receiveMessages call of consumer c has surfaced so far
Surfaced(r) == {r.prioritized[k].id : k \in 1..Len(r.prioritized)}

\* consumer c surfaces id in this step
Surfaces(c, id) ==
    /\ id \notin Surfaced(receivers[c])
    /\ id \in Surfaced(receivers'[c])

\* consumer c is the one whose step marks id received
Marks(c, id) ==
    /\ receivers[c].pc = "mark"
    /\ receivers'[c] /= receivers[c]
    /\ receivers[c].batch[receivers[c].i] = id

\* C23 as stated: with two receiveMessages calls in progress, a call surfaces
\* no message while the transport's lease on it is held by the other call.
C23_NotSurfacedUnderOthersLease ==
    [][\A c \in Consumers, id \in Ids :
          Surfaces(c, id) => leases[id] \in {0, c}]_vars

\* C23: a receiveMessages call marks received and surfaces only messages the
\* transport returned to that same call, and the transport returns a message
\* to a call only while no lease on it is held.
C23_OnlyOwnBatch ==
    [][\A c \in Consumers, id \in Ids :
          /\ Surfaces(c, id) => (id \in receivers[c].returned /\ Marks(c, id))
          /\ (id \in DOMAIN messageMetadata
              /\ messageMetadata'[id].receiveCount /= messageMetadata[id].receiveCount)
                 => \E d \in Consumers : Marks(d, id) /\ id \in receivers[d].returned
          /\ (id \in receivers'[c].returned /\ id \notin receivers[c].returned)
                 => (leases[id] = 0 /\ leases'[id] = c)]_vars

C23_Witness ==
    /\ receivers[1].pc = "done"
    /\ receivers[2].pc = "done"
    /\ receivers[1].candidates = receivers[2].candidates
    /\ Surfaced(receivers[1]) = {1}
    /\ Surfaced(receivers[2]) = {2}
    /\ leases[1] = 1
    /\ leases[2] = 2


\* C31: the receiveCount and first-receive timestamp attached to a message
\* returned by receiveMessages are the values stored for its id right after
\* the call; the first delivery reports receiveCount 1.
C31_ReturnedCountIsStored ==
    (call.op = "receiveMessages" /\ call.error = "none")
        => \A i \in 1..Len(call.result) :
               /\ call.result[i].id \in DOMAIN messageMetadata
               /\ call.result[i].receiveCount
                      = messageMetadata[call.result[i].id].receiveCount
               /\ call.result[i].firstReceiveTimestamp
                      = messageMetadata[call.result[i].id].firstReceivedAt


\* C32: when the index fails part-way through a receiveMessages batch, the
\* call ends with that error and returns nothing, and the messages handled
\* before the failure (a prefix of the transport's batch; the whole batch
\* when the final depth query fails) keep their receiveCount raised by one
\* and their processing clock started.
C32_LoopFailed(c) ==
    /\ c.op = "receiveMessages"
    /\ c.transportCalled
    /\ c.error = "BackendError"

C32_Kept(batch, done) ==
    /\ \A i \in 1..done :
           batch[i] \in DOMAIN messageMetadata
               => /\ messageMetadata'[batch[i]].receiveCount
                         = messageMetadata[batch[i]].receiveCount + 1
                  /\ batch[i] \in DOMAIN messageProcessingStartTimes'
                  /\ messageProcessingStartTimes'[batch[i]] = now
    /\ \A id \in (DOMAIN messageMetadata) \ {batch[i] : i \in 1..done} :
           messageMetadata'[id] = messageMetadata[id]

C32_NoRollback ==
    [][C32_LoopFailed(call')
          => /\ call'.result = <<>>
             /\ DOMAIN messageMetadata' = DOMAIN messageMetadata
             /\ priorityQueue' = priorityQueue
             /\ \E done \in 0..Len(call'.batch) :
                    /\ call'.failure = "zCard" => done = Len(call'.batch)
                    /\ C32_Kept(call'.batch, done)]_vars

C32_Witness ==
    /\ C32_LoopFailed(call)
    /\ call.failure = "get"
    /\ Len(call.batch) = 2
    /\ call.batch[1] \in DOMAIN messageMetadata
    /\ call.batch[2] \in DOMAIN messageMetadata
    /\ messageMetadata[call.batch[1]].receiveCount = 1
    /\ messageMetadata[call.batch[2]].receiveCount = 0
    /\ call.batch[1] \in DOMAIN messageProcessingStartTimes


\* C33: a message whose sendMessage failed at index registration (it is in the
\* transport and in no class queue) is never surfaced by receiveMessages.
C33_UnregisteredNeverSurfaced ==
    (call.op = "receiveMessages" /\ call.error = "none")
        => \A i \in 1..Len(call.result) : InSomeQueue(call.result[i].id)


\* the endMessageProcessing(id, c) call made by a deleteMessage step, its
\* sample and the latency of class c before it
C34_Ends ==
    /\ call'.op = "deleteMessage"
    /\ call'.withId
    /\ call'.error = "none"
    /\ now' = now

C34_Applies ==
    /\ call'.messageId \in DOMAIN messageProcessingStartTimes
    /\ call'.priority \in Priorities

C34_Sample == now - messageProcessingStartTimes[call'.messageId]
C34_Old == processingLatencyByPriority[call'.priority]

C34_Frame ==
    IF C34_Applies
    THEN /\ call'.messageId \notin DOMAIN messageProcessingStartTimes'
         /\ \A id \in (DOMAIN messageProcessingStartTimes) \ {call'.messageId} :
                /\ id \in DOMAIN messageProcessingStartTimes'
                /\ messageProcessingStartTimes'[id] = messageProcessingStartTimes[id]
         /\ \A p \in Priorities \ {call'.priority} :
                processingLatencyByPriority'[p] = processingLatencyByPriority[p]
    ELSE /\ messageProcessingStartTimes' = messageProcessingStartTimes
         /\ processingLatencyByPriority' = processingLatencyByPriority

\* C34 as stated: endMessageProcessing sets latency[c] to the sample when the
\* previous latency is 0 and otherwise to exactly 0.9*old + 0.1*sample.
C34_ExactAverage ==
    [][(C34_Ends /\ C34_Applies)
          => IF C34_Old = 0
             THEN processingLatencyByPriority'[call'.priority] = C34_Sample
             ELSE 10 * processingLatencyByPriority'[call'.priority]
                      = 9 * C34_Old + C34_Sample]_vars

\* C34: endMessageProcessing(id, c) for an id with a start record and an
\* in-range class sets latency[c] to the sample when the previous latency is 0
\* and otherwise to 0.9*old + 0.1*sample rounded to the nearest integer (half
\* up), and removes the start record; otherwise it changes nothing.
C34_RoundedAverage ==
    [][C34_Ends
          => /\ C34_Frame
             /\ C34_Applies
                    => IF C34_Old = 0
                       THEN processingLatencyByPriority'[call'.priority] = C34_Sample
                       ELSE /\ 10 * processingLatencyByPriority'[call'.priority] - 5
                                   <= 9 * C34_Old + C34_Sample
                            /\ 9 * C34_Old + C34_Sample
                                   < 10 * processingLatencyByPriority'[call'.priority] + 5]_vars

C34_Witness ==
    /\ call.op = "deleteMessage"
    /\ call.withId
    /\ call.priority \in Priorities
    /\ now = MaxTime
    /\ messageIdCounter = 3
    /\ sqs = {}
    /\ messageProcessingStartTimes = <<>>
    /\ processingLatencyByPriority[call.priority] = 1
    /\ \A p \in Priorities \ {call.priority} : processingLatencyByPriority[p] = 0
    /\ \A p \in Priorities : queueDepthByPriority[p] = 0


\* the lifecycle events of the index session
C35_Lifecycle(c) == c.op \in {"connect", "disconnect", "clientError"}

\* C35 as stated: isConnected() is true after a successful connect() and
\* false after every other lifecycle event: a failed connect() propagates its
\* error and leaves it false, disconnect() and a client error set it to false.
C35_TrueIffLastConnectSucceeded ==
    [][C35_Lifecycle(call')
          => (connected' <=> (call'.op = "connect" /\ call'.error = "none"))]_vars

\* C35: isConnected() changes only at lifecycle events. A successful
\* connect() sets it, a failed connect() propagates its error and leaves it
\* as it was, a client error clears it, and disconnect() calls the client's
\* quit exactly when it was set, clearing it when quit succeeds and leaving it
\* set (with the error propagated) when quit fails.
C35_ConnectedFlag ==
    [][/\ ~C35_Lifecycle(call') => connected' = connected
       /\ (call'.op = "connect" /\ call'.error = "none") => connected'
       /\ (call'.op = "connect" /\ call'.error /= "none")
              => (connected' = connected /\ call'.failure = "connect")
       /\ call'.op = "clientError" => ~connected'
       /\ call'.op = "disconnect"
              => /\ call'.clientCalled <=> connected
                 /\ call'.error = "none" => ~connected'
                 /\ call'.error /= "none" => (connected /\ connected')]_vars

C35_Witness ==
    /\ call.op = "disconnect"
    /\ call.error = "none"
    /\ ~call.clientCalled
    /\ ~connected
    /\ messageIdCounter > 1


\* C36: once deleteMessage(receiptHandle, id, priority) has completed, the id
\* has no metadata record in any later state, also with receiveMessages calls
\* handling the id in progress.
C36_DeletedStaysDeleted ==
    \A id \in Ids : id \notin sqs => id \notin DOMAIN messageMetadata

\* consumer c completes a markMessageAsReceived(id) in this step
CompletesMark(c, id) ==
    /\ receivers[c].pc = "markSet"
    /\ receivers'[c] /= receivers[c]
    /\ receivers[c].batch[receivers[c].i] = id
    /\ receivers[c].read /= <<>>

\* C37: the stored receiveCount counts the completed markMessageAsReceived
\* executions: every completed execution raises it by exactly one, under any
\* interleaving of the consumers, and no step lowers it.
C37_NoLostUpdate ==
    [][\A id \in (DOMAIN messageMetadata) \cap (DOMAIN messageMetadata') :
          messageMetadata'[id].receiveCount
              = messageMetadata[id].receiveCount
                    + Cardinality({c \in Consumers : CompletesMark(c, id)})]_vars


\* C38: after deleteMessage(receiptHandle, id, p) succeeds the id is a member
\* of no class queue, whichever valid class p the caller passed.
C38_DeletedFromEveryQueue ==
    (/\ call.op = "deleteMessage"
     /\ call.withId
     /\ call.error = "none"
     /\ call.priority \in Priorities)
        => ~InSomeQueue(call.messageId)


C39_ReceiveStep ==
    /\ call'.op = "receiveMessages"
    /\ now' = now

C39_SurfacedIds == {call'.result[k].id : k \in 1..Len(call'.result)}

\* C39: receiveMessages adds no id to and removes none from any class queue
\* and creates or deletes no metadata record: every class depth is the same
\* before and after the call, and only receiveCount, firstReceivedAt and
\* lastReceivedAt of the surfaced messages change.
C39_ReceiveFrame ==
    [][C39_ReceiveStep =>
          /\ priorityQueue' = priorityQueue
          /\ getQueueDepthByPriority(priorityQueue')
                 = getQueueDepthByPriority(priorityQueue)
          /\ DOMAIN messageMetadata' = DOMAIN messageMetadata
          /\ \A id \in DOMAIN messageMetadata :
                 /\ messageMetadata'[id].id = messageMetadata[id].id
                 /\ messageMetadata'[id].priority = messageMetadata[id].priority
                 /\ messageMetadata'[id].sentAt = messageMetadata[id].sentAt
                 /\ id \notin C39_SurfacedIds
                        => messageMetadata'[id] = messageMetadata[id]]_vars

\* a receive has surfaced one registered message and left another one alone
C39_Witness ==
    /\ call.op = "receiveMessages"
    /\ call.error = "none"
    /\ Len(call.result) = 1
    /\ InSomeQueue(call.result[1].id)
    /\ messageMetadata[call.result[1].id].receiveCount > 0
    /\ \E id \in DOMAIN messageMetadata :
           /\ id /= call.result[1].id
           /\ messageMetadata[id].receiveCount = 0


\* C40: with the index unchanged during the call, getNextMessages(maxMessages)
\* returns exactly min(maxMessages, total backlog over all classes) ids, in
\* normal mode and in starvation-prevention mode alike, none listed twice.
C40_ExactCount ==
    (call.op = "getNextMessages" /\ call.error = "none")
        => /\ Len(call.candidates) = Min(call.maxMessages, SumOver(Depths, Priorities))
           /\ \A i, j \in 1..Len(call.candidates) :
                  call.candidates[i] = call.candidates[j] => i = j

====
